---- MODULE Spec2Model ----
(***************************************************************************)
(* Model of the EDI processing service (python-rpc-service):               *)
(*   src/edi_parser.py     tokenizer and per-type extraction               *)
(*   src/edi_validator.py  structural and business-rule validation,        *)
(*                         version / type detectors                        *)
(*   src/edi_service.py    ProcessEdiMessage / ValidateEdiMessage          *)
(*                                                                         *)
(* A Python str is modelled as a sequence of one-character strings, so     *)
(* that strip / split / len / regular-expression search are computed on    *)
(* characters as the code computes them.                                   *)
(***************************************************************************)
EXTENDS Integers, Sequences, FiniteSets, TLC

VARIABLES
    raw,                \* input text of the pure-function specifications
    fn_pc,              \* "input" | "done"
    fn_out,             \* result of the applied function
    pc,                 \* position of the request handler
    request,            \* the request being handled
    messages,           \* ProcessEdiMessage local `messages`
    validation_result,  \* ProcessEdiMessage local `validation_result`
    parse_result,       \* ProcessEdiMessage local `parse_result`
    business_validation,\* ProcessEdiMessage local `business_validation`
    response,           \* the response returned to the caller
    ran,                \* stages called while handling the request
    calls,              \* locals of the calls running on the worker pool
    history             \* <<request, response>> of the calls returned so far

vars == <<raw, fn_pc, fn_out, pc, request, messages, validation_result,
          parse_result, business_validation, response, ran, calls, history>>

fn_vars == <<raw, fn_pc, fn_out>>
svc_vars == <<pc, request, messages, validation_result, parse_result,
              business_validation, response, ran>>
pool_vars == <<calls, history>>

----------------------------------------------------------------------------
(* Python str primitives on character sequences                            *)

NL == "\n"
SP == " "
STAR == "*"

\* str.strip() removes leading and trailing whitespace characters
IsSpace(c) == c \in {SP, NL}

RECURSIVE lstrip(_)
lstrip(s) ==
    IF s = <<>> THEN s
    ELSE IF IsSpace(Head(s)) THEN lstrip(Tail(s)) ELSE s

RECURSIVE rstrip(_)
rstrip(s) ==
    IF s = <<>> THEN s
    ELSE IF IsSpace(s[Len(s)]) THEN rstrip(SubSeq(s, 1, Len(s) - 1)) ELSE s

strip(s) == rstrip(lstrip(s))

\* str.split(sep) for a one-character separator: always at least one part
RECURSIVE split(_, _)
split(s, sep) ==
    IF \A k \in 1..Len(s) : s[k] # sep THEN <<s>>
    ELSE LET k == CHOOSE k \in 1..Len(s) :
                      s[k] = sep /\ \A j \in 1..(k - 1) : s[j] # sep
         IN  <<SubSeq(s, 1, k - 1)>> \o split(SubSeq(s, k + 1, Len(s)), sep)

\* sep.join(parts) for a one-character separator
RECURSIVE join(_, _)
join(sep, parts) ==
    IF parts = <<>> THEN <<>>
    ELSE IF Len(parts) = 1 THEN parts[1]
    ELSE parts[1] \o <<sep>> \o join(sep, Tail(parts))

\* text[i..] starts with the literal lit (1-based i)
MatchAt(text, i, lit) ==
    /\ i >= 1
    /\ i + Len(lit) - 1 <= Len(text)
    /\ SubSeq(text, i, i + Len(lit) - 1) = lit

----------------------------------------------------------------------------
(* Tokenizers                                                              *)

\* segment_data numbered by the line index instead of the segment count
segment_data_by_line(elements, i, segments) ==
    [segment_id |-> elements[1],
     elements |-> Tail(elements),
     line_number |-> i + 1,
     position |-> i + 1]

\* EdiParser._split_into_segments: the dict built for one line
segment_data(elements, i, segments) ==
    [segment_id |-> elements[1],
     elements |-> Tail(elements),
     line_number |-> i + 1,
     position |-> Len(segments) + 1]

\* EdiParser._split_into_segments: the loop body for 0-based line index i
RECURSIVE parser_split_loop(_, _, _)
parser_split_loop(lines, i, segments) ==
    IF i >= Len(lines) THEN segments
    ELSE LET line == strip(lines[i + 1])
             elements == split(line, STAR)
         IN  IF line = <<>> THEN parser_split_loop(lines, i + 1, segments)
             ELSE IF Len(elements) < 2
                  THEN parser_split_loop(lines, i + 1, segments)
             ELSE parser_split_loop(lines, i + 1,
                      Append(segments, segment_data(elements, i, segments)))

\* the parser's tokenizer without the strip of the whole text
parser_split_into_segments_unstripped(edi_message) ==
    parser_split_loop(split(edi_message, NL), 0, <<>>)

parser_split_into_segments(edi_message) ==
    parser_split_loop(split(strip(edi_message), NL), 0, <<>>)

\* EdiValidator._split_into_segments
RECURSIVE validator_split_loop(_, _, _)
validator_split_loop(lines, i, segments) ==
    IF i >= Len(lines) THEN segments
    ELSE LET line == strip(lines[i + 1])
             elements == split(line, STAR)
         IN  IF line = <<>> THEN validator_split_loop(lines, i + 1, segments)
             ELSE IF Len(elements) < 2
                  THEN validator_split_loop(lines, i + 1, segments)
             ELSE validator_split_loop(lines, i + 1,
                      Append(segments,
                             [segment_id |-> elements[1],
                              elements |-> Tail(elements),
                              line_number |-> i + 1,
                              position |-> Len(segments) + 1]))

validator_split_into_segments(edi_message) ==
    validator_split_loop(split(strip(edi_message), NL), 0, <<>>)

----------------------------------------------------------------------------
(* Literals of the source as character sequences                           *)

Word ==
    ("ISA" :> <<"I", "S", "A">>)
    @@ ("GS" :> <<"G", "S">>)
    @@ ("ST" :> <<"S", "T">>)
    @@ ("SE" :> <<"S", "E">>)
    @@ ("GE" :> <<"G", "E">>)
    @@ ("IEA" :> <<"I", "E", "A">>)
    @@ ("BEG" :> <<"B", "E", "G">>)
    @@ ("BIG" :> <<"B", "I", "G">>)
    @@ ("BSN" :> <<"B", "S", "N">>)
    @@ ("AK1" :> <<"A", "K", "1">>)
    @@ ("AK2" :> <<"A", "K", "2">>)
    @@ ("AK5" :> <<"A", "K", "5">>)
    @@ ("AK9" :> <<"A", "K", "9">>)
    @@ ("REF" :> <<"R", "E", "F">>)
    @@ ("N1" :> <<"N", "1">>)
    @@ ("N3" :> <<"N", "3">>)
    @@ ("N4" :> <<"N", "4">>)
    @@ ("PO1" :> <<"P", "O", "1">>)
    @@ ("IT1" :> <<"I", "T", "1">>)
    @@ ("CTT" :> <<"C", "T", "T">>)
    @@ ("TDS" :> <<"T", "D", "S">>)
    @@ ("HL" :> <<"H", "L">>)
    @@ ("PRF" :> <<"P", "R", "F">>)
    @@ ("TD1" :> <<"T", "D", "1">>)
    @@ ("TD5" :> <<"T", "D", "5">>)
    @@ ("BY" :> <<"B", "Y">>)
    @@ ("BT" :> <<"B", "T">>)
    @@ ("RE" :> <<"R", "E">>)
    @@ ("SF" :> <<"S", "F">>)
    @@ ("CA" :> <<"C", "A">>)

RECURSIVE Flatten(_)
Flatten(ss) == IF ss = <<>> THEN <<>> ELSE Head(ss) \o Flatten(Tail(ss))

----------------------------------------------------------------------------
(* edi_validator.py                                                        *)

\* edi_service_pb2.ProcessingMessage: level, code, field, line_number; the
\* interpolated parts of the message text are kept in index and detail
ProcessingMessage(level, code, field, index, line_number, detail) ==
    [level |-> level, code |-> code, field |-> field, index |-> index,
     line_number |-> line_number, detail |-> detail]

ValidationResult(is_valid, msgs, has_errors) ==
    [is_valid |-> is_valid, messages |-> msgs, has_errors |-> has_errors,
     raised |-> FALSE]

\* a helper left by an uncaught exception: no result
Raised == [is_valid |-> FALSE, messages |-> <<>>, has_errors |-> FALSE,
           raised |-> TRUE]

\* list[i] of Python raises IndexError outside -len..len-1
IndexFault(list, i) == i >= Len(list) \/ i < 0 - Len(list)

\* EdiParser.segment_patterns
parser_segment_patterns ==
    [c \in {"850", "810", "856", "997"} |->
        CASE c = "850" ->
               [required |-> <<"ISA", "GS", "ST", "BEG", "SE", "GE", "IEA">>,
                optional |-> <<"REF", "N1", "N3", "N4", "PO1", "CTT">>]
          [] c = "810" ->
               [required |-> <<"ISA", "GS", "ST", "BIG", "SE", "GE", "IEA">>,
                optional |-> <<"REF", "N1", "N3", "N4", "IT1", "TDS", "CTT">>]
          [] c = "856" ->
               [required |-> <<"ISA", "GS", "ST", "BSN", "SE", "GE", "IEA">>,
                optional |-> <<"REF", "N1", "N3", "N4", "HL", "PRF", "TD1",
                               "TD5">>]
          [] c = "997" ->
               [required |-> <<"ISA", "GS", "ST", "AK1", "SE", "GE", "IEA">>,
                optional |-> <<"AK2", "AK5", "AK9">>]]

\* EdiValidator.segment_patterns
validator_segment_patterns ==
    [c \in {"850", "810", "856", "997"} |->
        CASE c = "850" ->
               [required |-> <<"ISA", "GS", "ST", "BEG", "SE", "GE", "IEA">>,
                optional |-> <<"REF", "N1", "N3", "N4", "PO1", "CTT">>]
          [] c = "810" ->
               [required |-> <<"ISA", "GS", "ST", "BIG", "SE", "GE", "IEA">>,
                optional |-> <<"REF", "N1", "N3", "N4", "IT1", "TDS", "CTT">>]
          [] c = "856" ->
               [required |-> <<"ISA", "GS", "ST", "BSN", "SE", "GE", "IEA">>,
                optional |-> <<"REF", "N1", "N3", "N4", "HL", "PRF", "TD1",
                               "TD5">>]
          [] c = "997" ->
               [required |-> <<"ISA", "GS", "ST", "AK1", "SE", "GE", "IEA">>,
                optional |-> <<"AK2", "AK5", "AK9">>]]

isa_element_lengths == <<2, 10, 2, 10, 2, 15, 2, 15, 6, 4, 1, 5, 2, 1, 1, 1>>

\* _validate_isa_segment counting an over-long element as an error
validate_isa_segment_strict(isa_segment) ==
    IF isa_segment.segment_id # Word.ISA
    THEN ValidationResult(FALSE,
             <<ProcessingMessage("ERROR", "INVALID_ISA_SEGMENT", "ISA", 0, 0,
                                 <<>>)>>, TRUE)
    ELSE LET elements == isa_segment.elements
             insufficient ==
                 IF Len(elements) < 16
                 THEN <<ProcessingMessage("ERROR", "INSUFFICIENT_ISA_ELEMENTS",
                                          "ISA", 0, 0, <<>>)>>
                 ELSE <<>>
             too_long ==
                 [k \in 1..Len(isa_element_lengths) |->
                     IF k - 1 < Len(elements)
                        /\ Len(elements[k]) > isa_element_lengths[k]
                     THEN <<ProcessingMessage("WARNING",
                                "ISA_ELEMENT_TOO_LONG", "ISA.n", k, 0, <<>>)>>
                     ELSE <<>>]
             has_errors == Len(elements) < 16 \/ Flatten(too_long) # <<>>
         IN  ValidationResult(~has_errors, insufficient \o Flatten(too_long),
                              has_errors)

\* EdiValidator._validate_isa_segment
validate_isa_segment(isa_segment) ==
    IF isa_segment.segment_id # Word.ISA
    THEN ValidationResult(FALSE,
             <<ProcessingMessage("ERROR", "INVALID_ISA_SEGMENT", "ISA", 0, 0,
                                 <<>>)>>, TRUE)
    ELSE LET elements == isa_segment.elements
             has_errors == Len(elements) < 16
             insufficient ==
                 IF Len(elements) < 16
                 THEN <<ProcessingMessage("ERROR", "INSUFFICIENT_ISA_ELEMENTS",
                                          "ISA", 0, 0, <<>>)>>
                 ELSE <<>>
             too_long ==
                 [k \in 1..Len(isa_element_lengths) |->
                     LET i == k - 1
                         expected_length == isa_element_lengths[k]
                     IN  IF i < Len(elements)
                            /\ Len(elements[i + 1]) > expected_length
                         THEN <<ProcessingMessage("WARNING",
                                    "ISA_ELEMENT_TOO_LONG", "ISA.n", i + 1, 0,
                                    <<>>)>>
                         ELSE <<>>]
         IN  ValidationResult(~has_errors, insufficient \o Flatten(too_long),
                              has_errors)

\* the slice taken as segment_ids[-2:]
LastTwo(segment_ids) ==
    IF Len(segment_ids) <= 2 THEN segment_ids
    ELSE SubSeq(segment_ids, Len(segment_ids) - 1, Len(segment_ids))

\* segment_ids[-3:]: the whole list when it has fewer than three entries
LastThree(segment_ids) ==
    IF Len(segment_ids) <= 3 THEN segment_ids
    ELSE SubSeq(segment_ids, Len(segment_ids) - 2, Len(segment_ids))

\* the opening sequence with GS and ST exchanged
expected_sequence_swapped == <<"ISA", "ST", "GS">>

expected_sequence == <<"ISA", "GS", "ST">>

\* The unguarded variant of the opening-sequence loop: segment_ids[i] is read
\* for every i, which raises IndexError on fewer than three segments.
validate_segment_structure_unguarded(segments, message_type) ==
    LET segment_ids == [k \in 1..Len(segments) |-> segments[k].segment_id]
    IN  IF \E i \in 0..2 : IndexFault(segment_ids, i) THEN Raised
        ELSE LET order ==
                     [k \in 1..3 |->
                         IF segment_ids[k] # Word[expected_sequence[k]]
                         THEN <<ProcessingMessage("ERROR",
                                    "INVALID_SEGMENT_ORDER",
                                    expected_sequence[k], k, 0,
                                    segment_ids[k])>>
                         ELSE <<>>]
                 closing ==
                     IF LastThree(segment_ids) # <<Word.SE, Word.GE, Word.IEA>>
                     THEN <<ProcessingMessage("ERROR",
                                "INVALID_CLOSING_SEGMENTS", "closing_segments",
                                0, 0, <<>>)>>
                     ELSE <<>>
                 msgs == Flatten(order) \o closing
             IN  ValidationResult(msgs = <<>>, msgs, msgs # <<>>)

\* EdiValidator._validate_segment_structure
validate_segment_structure(segments, message_type) ==
    LET segment_ids == [k \in 1..Len(segments) |-> segments[k].segment_id]
        \* the index reads made by the loop condition
        faults == \E i \in 0..2 :
                      i < Len(segment_ids) /\ IndexFault(segment_ids, i)
        order ==
            [k \in 1..3 |->
                LET i == k - 1
                IN  IF i < Len(segment_ids)
                       /\ segment_ids[i + 1] # Word[expected_sequence[k]]
                    THEN <<ProcessingMessage("ERROR", "INVALID_SEGMENT_ORDER",
                               expected_sequence[k], i + 1, 0,
                               segment_ids[i + 1])>>
                    ELSE <<>>]
        closing ==
            IF LastThree(segment_ids) # <<Word.SE, Word.GE, Word.IEA>>
            THEN <<ProcessingMessage("ERROR", "INVALID_CLOSING_SEGMENTS",
                                     "closing_segments", 0, 0, <<>>)>>
            ELSE <<>>
        msgs == Flatten(order) \o closing
    IN  IF faults THEN Raised
        ELSE ValidationResult(msgs = <<>>, msgs, msgs # <<>>)

\* EdiValidator._validate_segment_elements
validate_segment_elements(segments, message_type) ==
    LET per_segment ==
            [k \in 1..Len(segments) |->
                LET segment_id == segments[k].segment_id
                    elements == segments[k].elements
                IN  IF segment_id = Word.ST /\ Len(elements) < 2
                    THEN <<ProcessingMessage("ERROR", "INSUFFICIENT_ST_ELEMENTS",
                               "ST", 0, segments[k].line_number, <<>>)>>
                    ELSE IF segment_id = Word.BEG /\ Len(elements) < 3
                    THEN <<ProcessingMessage("ERROR",
                               "INSUFFICIENT_BEG_ELEMENTS", "BEG", 0,
                               segments[k].line_number, <<>>)>>
                    ELSE <<>>]
        msgs == Flatten(per_segment)
    IN  ValidationResult(msgs = <<>>, msgs, msgs # <<>>)

\* the required-segment loop leaving at the first missing id
missing_required_first(required_segments, segment_ids) ==
    LET absent == {k \in 1..Len(required_segments) :
                       Word[required_segments[k]] \notin segment_ids}
    IN  IF absent = {} THEN <<>>
        ELSE LET k == CHOOSE k \in absent : \A j \in absent : k <= j
             IN  <<ProcessingMessage("ERROR", "MISSING_REQUIRED_SEGMENT",
                                     required_segments[k], 0, 0, <<>>)>>

\* validate_format lines 104-112: one message per required id that is not
\* among the segment ids
missing_required(required_segments, segment_ids) ==
    Flatten([k \in 1..Len(required_segments) |->
                IF Word[required_segments[k]] \notin segment_ids
                THEN <<ProcessingMessage("ERROR", "MISSING_REQUIRED_SEGMENT",
                                         required_segments[k], 0, 0, <<>>)>>
                ELSE <<>>])

\* the except branch of validate_format
format_exception(msgs) ==
    [is_valid |-> FALSE,
     messages |-> Append(msgs, ProcessingMessage("ERROR", "VALIDATION_ERROR",
                                                 "", 0, 0, <<>>)),
     has_errors |-> TRUE, raised |-> FALSE]

\* validate_format without the return of line 92: the checks go on after
\* EMPTY_MESSAGE and segments[0] raises into the except branch
validate_format_no_early_return(edi_message, message_type) ==
    IF message_type \notin DOMAIN validator_segment_patterns
    THEN ValidationResult(FALSE,
             <<ProcessingMessage("ERROR", "UNSUPPORTED_MESSAGE_TYPE", "", 0, 0,
                                 <<>>)>>, TRUE)
    ELSE
    LET segments == validator_split_into_segments(edi_message)
    IN  IF segments = <<>>
        THEN format_exception(
                 <<ProcessingMessage("ERROR", "EMPTY_MESSAGE", "", 0, 0,
                                     <<>>)>>)
        ELSE
        LET isa_validation == validate_isa_segment(segments[1])
            required_segments == validator_segment_patterns[message_type].required
            segment_ids == {segments[k].segment_id : k \in 1..Len(segments)}
            missing == missing_required(required_segments, segment_ids)
            structure_validation ==
                validate_segment_structure(segments, message_type)
            element_validation ==
                validate_segment_elements(segments, message_type)
            before_structure == isa_validation.messages \o missing
            msgs == before_structure \o structure_validation.messages
                        \o element_validation.messages
            has_errors == \/ isa_validation.has_errors
                          \/ missing # <<>>
                          \/ structure_validation.has_errors
                          \/ element_validation.has_errors
        IN  IF structure_validation.raised
            THEN format_exception(before_structure)
            ELSE ValidationResult(~has_errors, msgs, has_errors)

\* EdiValidator.validate_format
validate_format(edi_message, message_type) ==
    IF message_type \notin DOMAIN validator_segment_patterns
    THEN ValidationResult(FALSE,
             <<ProcessingMessage("ERROR", "UNSUPPORTED_MESSAGE_TYPE", "", 0, 0,
                                 <<>>)>>, TRUE)
    ELSE
    LET segments == validator_split_into_segments(edi_message)
    IN  IF segments = <<>>
        THEN ValidationResult(FALSE,
                 <<ProcessingMessage("ERROR", "EMPTY_MESSAGE", "", 0, 0,
                                     <<>>)>>, TRUE)
        ELSE
        LET isa_validation == validate_isa_segment(segments[1])
            required_segments == validator_segment_patterns[message_type].required
            segment_ids == {segments[k].segment_id : k \in 1..Len(segments)}
            missing == missing_required(required_segments, segment_ids)
            structure_validation ==
                validate_segment_structure(segments, message_type)
            element_validation ==
                validate_segment_elements(segments, message_type)
            before_structure == isa_validation.messages \o missing
            msgs == before_structure \o structure_validation.messages
                        \o element_validation.messages
            has_errors == \/ isa_validation.has_errors
                          \/ missing # <<>>
                          \/ structure_validation.has_errors
                          \/ element_validation.has_errors
        IN  IF structure_validation.raised
            THEN format_exception(before_structure)
            ELSE ValidationResult(~has_errors, msgs, has_errors)

----------------------------------------------------------------------------
(* edi_parser.py                                                           *)

Digits == {"0", "1", "2", "3", "4", "5", "6", "7", "8", "9"}

DigitValue(c) ==
    CASE c = "0" -> 0 [] c = "1" -> 1 [] c = "2" -> 2 [] c = "3" -> 3
      [] c = "4" -> 4 [] c = "5" -> 5 [] c = "6" -> 6 [] c = "7" -> 7
      [] c = "8" -> 8 [] c = "9" -> 9

RECURSIVE DecimalValue(_)
DecimalValue(ds) ==
    IF ds = <<>> THEN 0
    ELSE 10 * DecimalValue(SubSeq(ds, 1, Len(ds) - 1)) + DigitValue(ds[Len(ds)])

\* the not-a-number float("nan") returns, kept apart from every number the
\* texts of the model denote
NaN == 0 - 1000000

\* Python a <= b on floats: False when an operand is NaN
float_le(a, b) == a # NaN /\ b # NaN /\ a <= b

\* float(s) swallowing the ValueError: a non-numeric text reads as 0.0
float_lenient(s) ==
    LET t == strip(s)
        negative == t # <<>> /\ t[1] = "-"
        body == IF negative THEN Tail(t) ELSE t
    IN  IF body # <<>> /\ \A k \in 1..Len(body) : body[k] \in Digits
        THEN [raised |-> FALSE,
              value |-> IF negative THEN 0 - DecimalValue(body)
                        ELSE DecimalValue(body)]
        ELSE [raised |-> FALSE, value |-> 0]

\* Python float(s) on the texts of the model (whitespace, sign, decimal
\* digits, letters): surrounding whitespace is ignored, "nan" reads as NaN,
\* otherwise an optional "-" and at least one digit are required and
\* anything else raises ValueError
float(s) ==
    LET t == strip(s)
        negative == t # <<>> /\ t[1] = "-"
        body == IF negative THEN Tail(t) ELSE t
    IN  IF t = <<"n", "a", "n">> THEN [raised |-> FALSE, value |-> NaN]
        ELSE IF body # <<>> /\ \A k \in 1..Len(body) : body[k] \in Digits
        THEN [raised |-> FALSE,
              value |-> IF negative THEN 0 - DecimalValue(body)
                        ELSE DecimalValue(body)]
        ELSE [raised |-> TRUE, value |-> 0]

\* `float(e) if e else 0.0`
float_or_zero(e) == IF e # <<>> THEN float(e) ELSE [raised |-> FALSE, value |-> 0]

\* protobuf defaults
Party(entity_identifier_code, name) ==
    [entity_identifier_code |-> entity_identifier_code, name |-> name]

NoParty == Party(<<>>, <<>>)

PurchaseOrderData ==
    [po_number |-> <<>>, po_date |-> <<>>, buyer |-> NoParty,
     seller |-> NoParty, ship_to |-> NoParty, bill_to |-> NoParty,
     line_items |-> <<>>]

InvoiceData ==
    [invoice_number |-> <<>>, invoice_date |-> <<>>, due_date |-> <<>>,
     bill_to |-> NoParty, remit_to |-> NoParty, ship_from |-> NoParty,
     ship_to |-> NoParty, line_items |-> <<>>]

AdvanceShipNoticeData ==
    [shipment_id |-> <<>>, shipment_date |-> <<>>,
     expected_delivery_date |-> <<>>, ship_from |-> NoParty,
     ship_to |-> NoParty, bill_to |-> NoParty, carrier |-> NoParty]

FunctionalAcknowledgmentData ==
    [original_transaction_set_id |-> <<>>, original_control_number |-> <<>>,
     acknowledgment_code |-> <<>>, transaction_set_acks |-> <<>>]

\* elements[i] when len(elements) >= i + 1, else the field's default ""
ElementOr(elements, i) == IF Len(elements) >= i + 1 THEN elements[i + 1] ELSE <<>>

\* the PO1 / IT1 branch: the line item, or raised when float() raises
LineItem(elements, quantity_field) ==
    LET quantity == IF Len(elements) >= 2 THEN float_or_zero(elements[2])
                    ELSE [raised |-> FALSE, value |-> 0]
        price == IF Len(elements) >= 4 THEN float_or_zero(elements[4])
                 ELSE [raised |-> FALSE, value |-> 0]
    IN  [raised |-> quantity.raised \/ price.raised,
         item |-> [line_number |-> ElementOr(elements, 0),
                   quantity |-> [field |-> quantity_field,
                                 value |-> quantity.value,
                                 unit_of_measure |-> ElementOr(elements, 2)],
                   unit_price |-> [value |-> price.value],
                   product |-> [description |-> ElementOr(elements, 4),
                                product_id |-> ElementOr(elements, 5)]]]

\* EdiParser._parse_purchase_order: the loop from segment k on
RECURSIVE parse_purchase_order_loop(_, _, _)
parse_purchase_order_loop(segments, k, po_data) ==
    IF k > Len(segments) THEN [raised |-> FALSE, data |-> po_data]
    ELSE
    LET segment_id == segments[k].segment_id
        elements == segments[k].elements
    IN  IF segment_id = Word.BEG
        THEN parse_purchase_order_loop(segments, k + 1,
                 [po_data EXCEPT
                     !.po_number = IF Len(elements) >= 2 THEN elements[2] ELSE @,
                     !.po_date = IF Len(elements) >= 3 THEN elements[3] ELSE @])
        ELSE IF segment_id = Word.PO1
        THEN LET line_item == LineItem(elements, "quantity_ordered")
             IN  IF line_item.raised THEN [raised |-> TRUE, data |-> po_data]
                 ELSE parse_purchase_order_loop(segments, k + 1,
                          [po_data EXCEPT
                              !.line_items = Append(@, line_item.item)])
        ELSE IF segment_id = Word.N1 /\ Len(elements) >= 2
        THEN LET entity_code == elements[1]
                 party == Party(entity_code, elements[2])
             IN  parse_purchase_order_loop(segments, k + 1,
                     IF entity_code = Word["BY"]
                     THEN [po_data EXCEPT !.buyer = party]
                     ELSE IF entity_code = Word["SE"]
                     THEN [po_data EXCEPT !.seller = party]
                     ELSE IF entity_code = Word["ST"]
                     THEN [po_data EXCEPT !.ship_to = party]
                     ELSE IF entity_code = Word["BT"]
                     THEN [po_data EXCEPT !.bill_to = party]
                     ELSE po_data)
        ELSE parse_purchase_order_loop(segments, k + 1, po_data)

\* extraction of a purchase order that fails on a segment it has no branch for
parse_purchase_order_strict(segments) ==
    IF \E k \in 1..Len(segments) :
           segments[k].segment_id \notin {Word.BEG, Word.PO1, Word.N1}
    THEN [raised |-> TRUE, data |-> PurchaseOrderData]
    ELSE parse_purchase_order_loop(segments, 1, PurchaseOrderData)

parse_purchase_order(segments) ==
    parse_purchase_order_loop(segments, 1, PurchaseOrderData)

\* EdiParser._parse_invoice
RECURSIVE parse_invoice_loop(_, _, _)
parse_invoice_loop(segments, k, invoice_data) ==
    IF k > Len(segments) THEN [raised |-> FALSE, data |-> invoice_data]
    ELSE
    LET segment_id == segments[k].segment_id
        elements == segments[k].elements
    IN  IF segment_id = Word.BIG
        THEN parse_invoice_loop(segments, k + 1,
                 [invoice_data EXCEPT
                     !.invoice_date = IF Len(elements) >= 1 THEN elements[1] ELSE @,
                     !.invoice_number = IF Len(elements) >= 2 THEN elements[2] ELSE @,
                     !.due_date = IF Len(elements) >= 3 THEN elements[3] ELSE @])
        ELSE IF segment_id = Word.IT1
        THEN LET line_item == LineItem(elements, "quantity_invoiced")
             IN  IF line_item.raised
                 THEN [raised |-> TRUE, data |-> invoice_data]
                 ELSE parse_invoice_loop(segments, k + 1,
                          [invoice_data EXCEPT
                              !.line_items = Append(@, line_item.item)])
        ELSE IF segment_id = Word.N1 /\ Len(elements) >= 2
        THEN LET entity_code == elements[1]
                 party == Party(entity_code, elements[2])
             IN  parse_invoice_loop(segments, k + 1,
                     IF entity_code = Word["BT"]
                     THEN [invoice_data EXCEPT !.bill_to = party]
                     ELSE IF entity_code = Word["RE"]
                     THEN [invoice_data EXCEPT !.remit_to = party]
                     ELSE IF entity_code = Word["SF"]
                     THEN [invoice_data EXCEPT !.ship_from = party]
                     ELSE IF entity_code = Word["ST"]
                     THEN [invoice_data EXCEPT !.ship_to = party]
                     ELSE invoice_data)
        ELSE parse_invoice_loop(segments, k + 1, invoice_data)

\* extraction of an invoice where each line item replaces the one before
parse_invoice_last_item_only(segments) ==
    LET parsed == parse_invoice_loop(segments, 1, InvoiceData)
        n == Len(parsed.data.line_items)
    IN  [raised |-> parsed.raised,
         data |-> [parsed.data EXCEPT
                      !.line_items = IF n = 0 THEN <<>> ELSE <<@[n]>>]]

parse_invoice(segments) == parse_invoice_loop(segments, 1, InvoiceData)

\* EdiParser._parse_advance_ship_notice
RECURSIVE parse_advance_ship_notice_loop(_, _, _)
parse_advance_ship_notice_loop(segments, k, asn_data) ==
    IF k > Len(segments) THEN [raised |-> FALSE, data |-> asn_data]
    ELSE
    LET segment_id == segments[k].segment_id
        elements == segments[k].elements
    IN  IF segment_id = Word.BSN
        THEN parse_advance_ship_notice_loop(segments, k + 1,
                 [asn_data EXCEPT
                     !.shipment_id = IF Len(elements) >= 1 THEN elements[1] ELSE @,
                     !.shipment_date = IF Len(elements) >= 2 THEN elements[2] ELSE @,
                     !.expected_delivery_date =
                         IF Len(elements) >= 3 THEN elements[3] ELSE @])
        ELSE IF segment_id = Word.HL
        THEN parse_advance_ship_notice_loop(segments, k + 1, asn_data)
        ELSE IF segment_id = Word.N1 /\ Len(elements) >= 2
        THEN LET entity_code == elements[1]
                 party == Party(entity_code, elements[2])
             IN  parse_advance_ship_notice_loop(segments, k + 1,
                     IF entity_code = Word["SF"]
                     THEN [asn_data EXCEPT !.ship_from = party]
                     ELSE IF entity_code = Word["ST"]
                     THEN [asn_data EXCEPT !.ship_to = party]
                     ELSE IF entity_code = Word["BT"]
                     THEN [asn_data EXCEPT !.bill_to = party]
                     ELSE IF entity_code = Word["CA"]
                     THEN [asn_data EXCEPT !.carrier = party]
                     ELSE asn_data)
        ELSE parse_advance_ship_notice_loop(segments, k + 1, asn_data)

parse_advance_ship_notice(segments) ==
    parse_advance_ship_notice_loop(segments, 1, AdvanceShipNoticeData)

\* EdiParser._parse_functional_acknowledgment
RECURSIVE parse_functional_acknowledgment_loop(_, _, _)
parse_functional_acknowledgment_loop(segments, k, fa_data) ==
    IF k > Len(segments) THEN [raised |-> FALSE, data |-> fa_data]
    ELSE
    LET segment_id == segments[k].segment_id
        elements == segments[k].elements
    IN  IF segment_id = Word.AK1
        THEN parse_functional_acknowledgment_loop(segments, k + 1,
                 [fa_data EXCEPT
                     !.original_transaction_set_id =
                         IF Len(elements) >= 1 THEN elements[1] ELSE @,
                     !.original_control_number =
                         IF Len(elements) >= 2 THEN elements[2] ELSE @,
                     !.acknowledgment_code =
                         IF Len(elements) >= 3 THEN elements[3] ELSE @])
        ELSE IF segment_id = Word.AK2
        THEN parse_functional_acknowledgment_loop(segments, k + 1,
                 [fa_data EXCEPT
                     !.transaction_set_acks =
                         Append(@, [transaction_set_id |-> ElementOr(elements, 0),
                                    control_number |-> ElementOr(elements, 1),
                                    acknowledgment_code |->
                                        ElementOr(elements, 2)])])
        ELSE IF segment_id = Word.AK5
        THEN parse_functional_acknowledgment_loop(segments, k + 1,
                 [fa_data EXCEPT
                     !.acknowledgment_code =
                         IF Len(elements) >= 1 THEN elements[1] ELSE @])
        ELSE parse_functional_acknowledgment_loop(segments, k + 1, fa_data)

\* the walk over the segments started after the envelope and the header
parse_functional_acknowledgment_after_header(segments) ==
    parse_functional_acknowledgment_loop(segments, 5,
                                         FunctionalAcknowledgmentData)

parse_functional_acknowledgment(segments) ==
    parse_functional_acknowledgment_loop(segments, 1,
                                         FunctionalAcknowledgmentData)

\* ParseResult; data is None unless success
NoData == [kind |-> "none"]

ParseResult(success, data, segments, error_message) ==
    [success |-> success, data |-> data, segments |-> segments,
     error_message |-> error_message]

\* EdiParser._convert_segments_to_pb: field-by-field copy
convert_segments_to_pb(segments) ==
    [k \in 1..Len(segments) |->
        [segment_id |-> segments[k].segment_id,
         elements |-> segments[k].elements,
         line_number |-> segments[k].line_number,
         position |-> segments[k].position]]

\* parse_message failing on a text without segments
parse_message_rejecting_empty(edi_message, message_type) ==
    LET segments == parser_split_into_segments(edi_message)
        parsed ==
            CASE message_type = "850" -> parse_purchase_order(segments)
              [] message_type = "810" -> parse_invoice(segments)
              [] message_type = "856" -> parse_advance_ship_notice(segments)
              [] message_type = "997" ->
                     parse_functional_acknowledgment(segments)
        kind ==
            CASE message_type = "850" -> "purchase_order"
              [] message_type = "810" -> "invoice"
              [] message_type = "856" -> "advance_ship_notice"
              [] message_type = "997" -> "functional_acknowledgment"
    IN  IF message_type \notin {"850", "810", "856", "997"}
        THEN [success |-> FALSE, data |-> [kind |-> "none"],
              segments |-> <<>>, error_message |-> "Unsupported message type"]
        ELSE IF segments = <<>> \/ parsed.raised
        THEN [success |-> FALSE, data |-> [kind |-> "none"],
              segments |-> <<>>, error_message |-> "Parsing error"]
        ELSE [success |-> TRUE,
              data |-> [kind |-> kind, value |-> parsed.data],
              segments |-> convert_segments_to_pb(segments),
              error_message |-> ""]

\* EdiParser.parse_message
parse_message(edi_message, message_type) ==
    LET segments == parser_split_into_segments(edi_message)
        parsed ==
            CASE message_type = "850" -> parse_purchase_order(segments)
              [] message_type = "810" -> parse_invoice(segments)
              [] message_type = "856" -> parse_advance_ship_notice(segments)
              [] message_type = "997" ->
                     parse_functional_acknowledgment(segments)
        kind ==
            CASE message_type = "850" -> "purchase_order"
              [] message_type = "810" -> "invoice"
              [] message_type = "856" -> "advance_ship_notice"
              [] message_type = "997" -> "functional_acknowledgment"
    IN  IF message_type \notin {"850", "810", "856", "997"}
        THEN ParseResult(FALSE, NoData, <<>>, "Unsupported message type")
        ELSE IF parsed.raised
        THEN ParseResult(FALSE, NoData, <<>>, "Parsing error")
        ELSE ParseResult(TRUE, [kind |-> kind, value |-> parsed.data],
                         convert_segments_to_pb(segments), "")

----------------------------------------------------------------------------
(* edi_validator.py: business rules                                        *)

\* the purchase-order rules with the quantity test `< 0`
validate_purchase_order_rules_negative_only(po_data) ==
    LET missing_number ==
            IF po_data.po_number = <<>>
            THEN <<ProcessingMessage("ERROR", "MISSING_PO_NUMBER", "po_number",
                                     0, 0, <<>>)>>
            ELSE <<>>
        no_items ==
            IF po_data.line_items = <<>>
            THEN <<ProcessingMessage("ERROR", "NO_LINE_ITEMS", "line_items",
                                     0, 0, <<>>)>>
            ELSE <<>>
        per_item ==
            [k \in 1..Len(po_data.line_items) |->
                LET i == k - 1
                    line_item == po_data.line_items[k]
                IN  (IF line_item.line_number = <<>>
                     THEN <<ProcessingMessage("ERROR", "MISSING_LINE_NUMBER",
                                "line_items[i].line_number", i, 0, <<>>)>>
                     ELSE <<>>)
                    \o
                    (IF line_item.quantity.value < 0
                     THEN <<ProcessingMessage("ERROR", "INVALID_QUANTITY",
                                "line_items[i].quantity_ordered", i, 0, <<>>)>>
                     ELSE <<>>)]
        msgs == missing_number \o no_items \o Flatten(per_item)
    IN  ValidationResult(msgs = <<>>, msgs, msgs # <<>>)

\* EdiValidator._validate_purchase_order_rules
validate_purchase_order_rules(po_data) ==
    LET missing_number ==
            IF po_data.po_number = <<>>
            THEN <<ProcessingMessage("ERROR", "MISSING_PO_NUMBER", "po_number",
                                     0, 0, <<>>)>>
            ELSE <<>>
        no_items ==
            IF po_data.line_items = <<>>
            THEN <<ProcessingMessage("ERROR", "NO_LINE_ITEMS", "line_items",
                                     0, 0, <<>>)>>
            ELSE <<>>
        per_item ==
            [k \in 1..Len(po_data.line_items) |->
                LET i == k - 1
                    line_item == po_data.line_items[k]
                IN  (IF line_item.line_number = <<>>
                     THEN <<ProcessingMessage("ERROR", "MISSING_LINE_NUMBER",
                                "line_items[i].line_number", i, 0, <<>>)>>
                     ELSE <<>>)
                    \o
                    (IF float_le(line_item.quantity.value, 0)
                     THEN <<ProcessingMessage("ERROR", "INVALID_QUANTITY",
                                "line_items[i].quantity_ordered", i, 0, <<>>)>>
                     ELSE <<>>)]
        msgs == missing_number \o no_items \o Flatten(per_item)
    IN  ValidationResult(msgs = <<>>, msgs, msgs # <<>>)

\* EdiValidator._validate_invoice_rules
validate_invoice_rules(invoice_data) ==
    LET missing_number ==
            IF invoice_data.invoice_number = <<>>
            THEN <<ProcessingMessage("ERROR", "MISSING_INVOICE_NUMBER",
                                     "invoice_number", 0, 0, <<>>)>>
            ELSE <<>>
        no_items ==
            IF invoice_data.line_items = <<>>
            THEN <<ProcessingMessage("ERROR", "NO_LINE_ITEMS", "line_items",
                                     0, 0, <<>>)>>
            ELSE <<>>
        msgs == missing_number \o no_items
    IN  ValidationResult(msgs = <<>>, msgs, msgs # <<>>)

\* EdiValidator._validate_asn_rules
validate_asn_rules(asn_data) ==
    LET msgs == IF asn_data.shipment_id = <<>>
                THEN <<ProcessingMessage("ERROR", "MISSING_SHIPMENT_ID",
                                         "shipment_id", 0, 0, <<>>)>>
                ELSE <<>>
    IN  ValidationResult(msgs = <<>>, msgs, msgs # <<>>)

\* EdiValidator._validate_functional_ack_rules
validate_functional_ack_rules(fa_data) ==
    LET msgs == IF fa_data.original_transaction_set_id = <<>>
                THEN <<ProcessingMessage("ERROR",
                           "MISSING_ORIGINAL_TRANSACTION_SET_ID",
                           "original_transaction_set_id", 0, 0, <<>>)>>
                ELSE <<>>
    IN  ValidationResult(msgs = <<>>, msgs, msgs # <<>>)

\* EdiValidator.validate_business_rules; parsed_data is the typed record
validate_business_rules(parsed_data, message_type) ==
    LET kind_validation ==
            CASE message_type = "850" -> validate_purchase_order_rules(parsed_data)
              [] message_type = "810" -> validate_invoice_rules(parsed_data)
              [] message_type = "856" -> validate_asn_rules(parsed_data)
              [] message_type = "997" ->
                     validate_functional_ack_rules(parsed_data)
              [] OTHER -> ValidationResult(TRUE, <<>>, FALSE)
    IN  ValidationResult(~kind_validation.has_errors, kind_validation.messages,
                         kind_validation.has_errors)

----------------------------------------------------------------------------
(* edi_validator.py: detectors                                             *)

\* The position reached from p by n repetitions of the regular expression
\* [^*]*\* (each runs to the next "*" and consumes it); 0 when there are
\* fewer than n "*" from p on
RECURSIVE AfterStars(_, _, _)
AfterStars(text, p, n) ==
    IF n = 0 THEN p
    ELSE IF \A q \in p..Len(text) : text[q] # STAR THEN 0
    ELSE LET q == CHOOSE q \in p..Len(text) :
                      text[q] = STAR /\ \A j \in p..(q - 1) : text[j] # STAR
         IN  AfterStars(text, q + 1, n - 1)

\* EdiValidator.edi_version_patterns, in dict order: ISA\* followed by
\* `groups` repetitions of [^*]*\* and the version literal
edi_version_patterns ==
    <<[version |-> "004010", groups |-> 16,
       literal |-> <<"0", "0", "4", "0", "1", "0">>],
      [version |-> "005010", groups |-> 17,
       literal |-> <<"0", "0", "5", "0", "1", "0">>]>>

\* re.search(pattern, edi_message)
version_pattern_found(pattern, edi_message) ==
    \E i \in 1..Len(edi_message) :
        /\ MatchAt(edi_message, i, Word.ISA \o <<STAR>>)
        /\ LET p == AfterStars(edi_message, i + 4, pattern.groups)
           IN  p # 0 /\ MatchAt(edi_message, p, pattern.literal)

\* EdiValidator.detect_edi_version
detect_edi_version(edi_message) ==
    IF version_pattern_found(edi_version_patterns[1], edi_message)
    THEN edi_version_patterns[1].version
    ELSE IF version_pattern_found(edi_version_patterns[2], edi_message)
    THEN edi_version_patterns[2].version
    ELSE "Unknown"

Unknown == <<"U", "n", "k", "n", "o", "w", "n">>

\* re.search(r"ST\*(\d{3})", edi_message) matches at i
st_match_at(edi_message, i) ==
    /\ MatchAt(edi_message, i, Word.ST \o <<STAR>>)
    /\ i + 5 <= Len(edi_message)
    /\ \A j \in (i + 3)..(i + 5) : edi_message[j] \in Digits

\* EdiValidator.detect_message_type: group 1 of the leftmost match
detect_message_type(edi_message) ==
    IF \E i \in 1..Len(edi_message) : st_match_at(edi_message, i)
    THEN LET i == CHOOSE i \in 1..Len(edi_message) :
                      /\ st_match_at(edi_message, i)
                      /\ \A j \in 1..(i - 1) : ~st_match_at(edi_message, j)
         IN  SubSeq(edi_message, i + 3, i + 5)
    ELSE Unknown

----------------------------------------------------------------------------
(* edi_service.py                                                          *)

\* EdiServiceServicer._initialize_supported_types: code and segment ids of
\* the entries
initialize_supported_types ==
    << [code |-> "850",
        required_segments |-> <<"ISA", "GS", "ST", "BEG", "SE", "GE", "IEA">>,
        optional_segments |-> <<"REF", "N1", "N3", "N4", "PO1", "CTT">>],
       [code |-> "810",
        required_segments |-> <<"ISA", "GS", "ST", "BIG", "SE", "GE", "IEA">>,
        optional_segments |-> <<"REF", "N1", "N3", "N4", "IT1", "TDS", "CTT">>],
       [code |-> "856",
        required_segments |-> <<"ISA", "GS", "ST", "BSN", "SE", "GE", "IEA">>,
        optional_segments |-> <<"REF", "N1", "N3", "N4", "HL", "PRF", "TD1",
                                "TD5">>],
       [code |-> "997",
        required_segments |-> <<"ISA", "GS", "ST", "AK1", "SE", "GE", "IEA">>,
        optional_segments |-> <<"AK2", "AK5", "AK9">>] >>

\* a service table without the 997 entry
supported_types_without_997 == <<"850", "810", "856">>

\* EdiServiceServicer.supported_types: the codes of the four entries
supported_types == <<"850", "810", "856", "997">>

\* a gate that lets every code through
is_message_type_supported_any(message_type) == TRUE

\* EdiServiceServicer._is_message_type_supported
is_message_type_supported(message_type) ==
    \E k \in 1..Len(supported_types) : supported_types[k] = message_type

ProcessEdiMessageResponse(status, message_type, msgs) ==
    [status |-> status, message_type |-> message_type, messages |-> msgs,
     data |-> NoData, parsed_segments |-> <<>>]

\* ProcessEdiMessage lines 169-184: an exception e that reaches the handler;
\* the message text is "Internal server error: " followed by str(e)
InternalError(message_type, e) ==
    ProcessEdiMessageResponse("INTERNAL_ERROR", message_type,
        <<ProcessingMessage("ERROR", "INTERNAL_ERROR", "", 0, 0, e)>>)

ValidateEdiMessageResponse(status, msgs, edi_version, detected) ==
    [status |-> status, messages |-> msgs, edi_version |-> edi_version,
     detected_message_type |-> detected]

\* the test of lines 104-106 with the negation of is_valid dropped
format_ends_request_inverted(result) == result.is_valid /\ result.has_errors

\* ProcessEdiMessage lines 104-106: the structural outcome ends the request
format_ends_request(result) == ~result.is_valid /\ result.has_errors

\* ProcessEdiMessage lines 134-136
business_ends_request(result) == ~result.is_valid /\ result.has_errors

NoRequest == [op |-> "none"]
NoResult == ValidationResult(TRUE, <<>>, FALSE)
NoParse == ParseResult(FALSE, NoData, <<>>, "")
NoResponse == [status |-> "NONE"]

SvcIdle ==
    /\ pc = "idle"
    /\ request = NoRequest
    /\ messages = <<>>
    /\ validation_result = NoResult
    /\ parse_result = NoParse
    /\ business_validation = NoResult
    /\ response = NoResponse
    /\ ran = {}
    /\ calls = <<>>
    /\ history = <<>>

----------------------------------------------------------------------------
(* Requests: documents are lines joined by "\n"                            *)

MaxBody == 2
MaxShort == 2

Line(fields) == join(STAR, fields)

IsaElements(n) == [k \in 1..n |-> <<"0">>]

IsaLine == Line(<<Word.ISA>> \o IsaElements(16))
\* element 1 longer than its maximum length 2
IsaLongLine == Line(<<Word.ISA, <<"0", "0", "0">> >> \o IsaElements(15))
\* fifteen elements only
IsaShortLine == Line(<<Word.ISA>> \o IsaElements(15))
GsLine == Line(<<Word.GS, <<"P">> >>)
StLine == Line(<<Word.ST, <<"8", "5", "0">>, <<"1">> >>)
SeLine == Line(<<Word.SE, <<"1">>, <<"1">> >>)
GeLine == Line(<<Word.GE, <<"1">> >>)
IeaLine == Line(<<Word.IEA, <<"1">> >>)

BodyLines ==
    { Line(<<Word.BEG, <<"0">>, <<"P">>, <<"D">> >>),
      Line(<<Word.PO1, <<"1">>, <<"5">>, <<"E">>, <<"2">> >>),
      Line(<<Word.PO1, <<"1">>, <<>>, <<"E">> >>),
      Line(<<Word.PO1, <<"1">>, <<"X">> >>),
      Line(<<Word.BIG, <<"D">>, <<"I">> >>),
      Line(<<Word.IT1, <<"1">>, <<"2">>, <<"E">>, <<"X">> >>),
      Line(<<Word.BSN, <<"S">> >>),
      Line(<<Word.AK1, <<"8", "5", "0">>, <<"1">>, <<"A">> >>) }

ShortLines ==
    { IsaLine, GsLine, StLine, SeLine, GeLine, IeaLine, <<>>, <<SP>>,
      <<"X">> }

RECURSIVE SeqsUpTo(_, _)
SeqsUpTo(S, n) ==
    IF n = 0 THEN {<<>>}
    ELSE LET shorter == SeqsUpTo(S, n - 1)
         IN  shorter \cup {Append(t, x) : t \in shorter, x \in S}

Openings == { <<IsaLine, GsLine, StLine>>, <<IsaLongLine, GsLine, StLine>>,
              <<IsaShortLine, GsLine, StLine>> }

Closings == { <<SeLine, GeLine, IeaLine>>, <<>> }

\* a valid 850 document, and the documents left when lines are removed
Valid850Lines ==
    <<IsaLine, GsLine, StLine,
      Line(<<Word.BEG, <<"0">>, <<"P">>, <<"D">> >>),
      SeLine, GeLine, IeaLine>>

RECURSIVE Keep(_, _, _)
Keep(lines, kept, k) ==
    IF k > Len(lines) THEN <<>>
    ELSE (IF k \in kept THEN <<lines[k]>> ELSE <<>>) \o Keep(lines, kept, k + 1)

RemovalDocs ==
    { join(NL, Keep(Valid850Lines, kept, 1)) :
          kept \in SUBSET (1..Len(Valid850Lines)) }

\* the valid 850 document with a one-element ST or a one-element BEG
ShortElementDocs ==
    { join(NL, [Valid850Lines EXCEPT ![3] = Line(<<Word.ST, <<"8", "5", "0">> >>)]),
      join(NL, [Valid850Lines EXCEPT ![4] = Line(<<Word.BEG, <<"0">> >>)]) }

\* the minimal 997 document of the end-to-end scenario, and the same with
\* an over-long ISA element
Ack997Lines(isa) ==
    <<isa, GsLine, StLine,
      Line(<<Word.AK1, <<"8", "5", "0">>, <<"0", "0", "0", "1">>, <<"A">> >>),
      SeLine, GeLine, IeaLine>>

Ack997Docs == { join(NL, Ack997Lines(IsaLine)),
                join(NL, Ack997Lines(IsaLongLine)) }

Docs ==
    { join(NL, opening \o body \o closing) :
          opening \in Openings, body \in SeqsUpTo(BodyLines, MaxBody),
          closing \in Closings }
    \cup { join(NL, lines) : lines \in SeqsUpTo(ShortLines, MaxShort) }
    \cup RemovalDocs
    \cup ShortElementDocs
    \cup Ack997Docs

Codes == {"850", "810", "856", "997", "999"}

\* ProcessingOptions; include_parsing_details is never read by the service
Options == [validate_format : BOOLEAN, validate_business_rules : BOOLEAN,
            include_raw_segments : BOOLEAN]

NoOptions == [validate_format |-> FALSE, validate_business_rules |-> FALSE,
              include_raw_segments |-> FALSE]

----------------------------------------------------------------------------
(* Specification Spec: one service instance handling requests              *)

Init ==
    /\ raw = <<>>
    /\ fn_pc = "off"
    /\ fn_out = [op |-> "none"]
    /\ SvcIdle

ReceiveProcess ==
    /\ pc = "idle"
    /\ \E doc \in Docs, code \in Codes, options \in Options :
           request' = [op |-> "process", edi_message |-> doc,
                       message_type |-> code, options |-> options]
    /\ pc' = "gate"
    /\ UNCHANGED <<fn_vars, pool_vars, messages, validation_result, parse_result,
                   business_validation, response, ran>>

ReceiveValidate ==
    /\ pc = "idle"
    /\ \E doc \in Docs, code \in Codes :
           request' = [op |-> "validate", edi_message |-> doc,
                       message_type |-> code, options |-> NoOptions]
    /\ pc' = "gate"
    /\ UNCHANGED <<fn_vars, pool_vars, messages, validation_result, parse_result,
                   business_validation, response, ran>>

\* ProcessEdiMessage lines 83-98
CheckSupported ==
    /\ pc = "gate"
    /\ request.op = "process"
    /\ IF ~is_message_type_supported(request.message_type)
       THEN /\ response' = ProcessEdiMessageResponse(
                               "UNSUPPORTED_MESSAGE_TYPE", request.message_type,
                               <<ProcessingMessage("ERROR",
                                     "UNSUPPORTED_MESSAGE_TYPE", "", 0, 0,
                                     <<>>)>>)
            /\ pc' = "done"
       ELSE /\ pc' = "format"
            /\ UNCHANGED response
    /\ UNCHANGED <<fn_vars, pool_vars, request, messages, validation_result, parse_result,
                   business_validation, ran>>

\* ProcessEdiMessage lines 100-112
ValidateFormat ==
    /\ pc = "format"
    /\ IF request.options.validate_format
       THEN LET result == validate_format(request.edi_message,
                                          request.message_type)
                extended == IF ~result.is_valid
                            THEN messages \o result.messages
                            ELSE messages
            IN  /\ validation_result' = result
                /\ ran' = ran \cup {"validate_format"}
                /\ messages' = extended
                /\ IF result.raised
                   THEN /\ response' = InternalError(request.message_type, <<>>)
                        /\ pc' = "done"
                   ELSE IF format_ends_request(result)
                   THEN /\ response' = ProcessEdiMessageResponse(
                                           "VALIDATION_ERROR",
                                           request.message_type, extended)
                        /\ pc' = "done"
                   ELSE /\ pc' = "parse"
                        /\ UNCHANGED response
       ELSE /\ pc' = "parse"
            /\ UNCHANGED <<validation_result, ran, messages, response>>
    /\ UNCHANGED <<fn_vars, pool_vars, request, parse_result, business_validation>>

\* ProcessEdiMessage lines 114-129
ParseMessage ==
    /\ pc = "parse"
    /\ LET result == parse_message(request.edi_message, request.message_type)
       IN  /\ parse_result' = result
           /\ ran' = ran \cup {"parse_message"}
           /\ IF ~result.success
              THEN /\ response' = ProcessEdiMessageResponse(
                                      "PARSING_ERROR", request.message_type,
                                      <<ProcessingMessage("ERROR",
                                            "PARSING_ERROR", "", 0, 0, <<>>)>>)
                   /\ pc' = "done"
              ELSE /\ pc' = "business"
                   /\ UNCHANGED response
    /\ UNCHANGED <<fn_vars, pool_vars, request, messages, validation_result,
                   business_validation>>

\* ProcessEdiMessage lines 131-142
ValidateBusinessRules ==
    /\ pc = "business"
    /\ IF request.options.validate_business_rules
       THEN LET result == validate_business_rules(parse_result.data.value,
                                                  request.message_type)
                extended == IF ~result.is_valid
                            THEN messages \o result.messages
                            ELSE messages
            IN  /\ business_validation' = result
                /\ ran' = ran \cup {"validate_business_rules"}
                /\ messages' = extended
                /\ IF business_ends_request(result)
                   THEN /\ response' = ProcessEdiMessageResponse(
                                           "BUSINESS_RULE_ERROR",
                                           request.message_type, extended)
                        /\ pc' = "done"
                   ELSE /\ pc' = "respond"
                        /\ UNCHANGED response
       ELSE /\ pc' = "respond"
            /\ UNCHANGED <<business_validation, ran, messages, response>>
    /\ UNCHANGED <<fn_vars, pool_vars, request, validation_result, parse_result>>

\* ProcessEdiMessage lines 144-167
BuildResponse ==
    /\ pc = "respond"
    /\ response' =
           [ProcessEdiMessageResponse("SUCCESS", request.message_type, messages)
               EXCEPT !.data = parse_result.data,
                      !.parsed_segments =
                          IF request.options.include_raw_segments
                          THEN parse_result.segments ELSE <<>>]
    /\ pc' = "done"
    /\ UNCHANGED <<fn_vars, pool_vars, request, messages, validation_result, parse_result,
                   business_validation, ran>>

\* ValidateEdiMessage calling parse_message after validate_format and
\* answering PARSING_ERROR when extraction fails
ValidateEdiMessage_extracting ==
    /\ pc = "gate"
    /\ request.op = "validate"
    /\ IF ~is_message_type_supported(request.message_type)
       THEN /\ response' = ValidateEdiMessageResponse(
                               "UNSUPPORTED_MESSAGE_TYPE",
                               <<ProcessingMessage("ERROR",
                                     "UNSUPPORTED_MESSAGE_TYPE", "", 0, 0,
                                     <<>>)>>, "", <<>>)
            /\ UNCHANGED <<validation_result, parse_result, ran>>
       ELSE LET result == validate_format(request.edi_message,
                                          request.message_type)
                parsed == parse_message(request.edi_message,
                                        request.message_type)
            IN  /\ validation_result' = result
                /\ parse_result' = parsed
                /\ ran' = ran \cup {"validate_format", "parse_message",
                                    "detect_edi_version", "detect_message_type"}
                /\ response' =
                       IF ~parsed.success
                       THEN ValidateEdiMessageResponse("PARSING_ERROR",
                                <<ProcessingMessage("ERROR", "PARSING_ERROR",
                                                    "", 0, 0, <<>>)>>, "", <<>>)
                       ELSE ValidateEdiMessageResponse(
                                IF result.is_valid THEN "SUCCESS"
                                ELSE "VALIDATION_ERROR",
                                result.messages,
                                detect_edi_version(request.edi_message),
                                detect_message_type(request.edi_message))
    /\ pc' = "done"
    /\ UNCHANGED <<fn_vars, pool_vars, request, messages, business_validation>>

\* EdiServiceServicer.ValidateEdiMessage, lines 227-255
ValidateEdiMessage ==
    /\ pc = "gate"
    /\ request.op = "validate"
    /\ IF ~is_message_type_supported(request.message_type)
       THEN /\ response' = ValidateEdiMessageResponse(
                               "UNSUPPORTED_MESSAGE_TYPE",
                               <<ProcessingMessage("ERROR",
                                     "UNSUPPORTED_MESSAGE_TYPE", "", 0, 0,
                                     <<>>)>>, "", <<>>)
            /\ UNCHANGED <<validation_result, ran>>
       ELSE LET result == validate_format(request.edi_message,
                                          request.message_type)
            IN  /\ validation_result' = result
                /\ ran' = ran \cup {"validate_format", "detect_edi_version",
                                    "detect_message_type"}
                /\ response' =
                       IF result.raised
                       THEN ValidateEdiMessageResponse("INTERNAL_ERROR",
                                <<ProcessingMessage("ERROR", "INTERNAL_ERROR",
                                                    "", 0, 0, <<>>)>>, "", <<>>)
                       ELSE ValidateEdiMessageResponse(
                                IF result.is_valid THEN "SUCCESS"
                                ELSE "VALIDATION_ERROR",
                                result.messages,
                                detect_edi_version(request.edi_message),
                                detect_message_type(request.edi_message))
    /\ pc' = "done"
    /\ UNCHANGED <<fn_vars, pool_vars, request, messages, parse_result,
                   business_validation>>

\* the response is returned; the handler's locals are gone
Return ==
    /\ pc = "done"
    /\ pc' = "idle"
    /\ request' = NoRequest
    /\ messages' = <<>>
    /\ validation_result' = NoResult
    /\ parse_result' = NoParse
    /\ business_validation' = NoResult
    /\ response' = NoResponse
    /\ ran' = {}
    /\ UNCHANGED <<fn_vars, pool_vars>>

Next ==
    \/ ReceiveProcess
    \/ ReceiveValidate
    \/ CheckSupported
    \/ ValidateFormat
    \/ ParseMessage
    \/ ValidateBusinessRules
    \/ BuildResponse
    \/ ValidateEdiMessage
    \/ Return

Spec == Init /\ [][Next]_vars

----------------------------------------------------------------------------
(* Properties of Spec                                                      *)

SupportedCodes == {"850", "810", "856", "997"}

HasError(msgs) == \E k \in 1..Len(msgs) : msgs[k].level = "ERROR"
HasWarning(msgs) == \E k \in 1..Len(msgs) : msgs[k].level = "WARNING"
HasCode(msgs, code) == \E k \in 1..Len(msgs) : msgs[k].code = code

Processing == request.op = "process"
FormatRan == "validate_format" \in ran
ParseRan == "parse_message" \in ran
BusinessRan == "validate_business_rules" \in ran

\* C1: in ProcessEdiMessage with validate_format requested, once the
\* structural outcome holds an Error message the request is over: the status
\* is VALIDATION_ERROR, the messages are the structural messages in order, no
\* typed record is returned, and neither extraction nor business-rule
\* validation has run, whatever the other options are.
C1_StructuralErrorEndsRequest ==
    (Processing /\ FormatRan /\ HasError(validation_result.messages)) =>
        /\ pc = "done"
        /\ response.status = "VALIDATION_ERROR"
        /\ response.messages = validation_result.messages
        /\ response.data = NoData
        /\ ~ParseRan
        /\ ~BusinessRan

C1_Witness ==
    /\ Processing /\ pc = "done"
    /\ request.options.validate_format
    /\ request.options.validate_business_rules
    /\ HasError(validation_result.messages)
    /\ HasWarning(validation_result.messages)
    /\ response.status = "VALIDATION_ERROR"

\* C2: a SUCCESS response with validate_format requested carries the
\* accumulated messages of the stages that ran, so every Warning of the
\* structural outcome appears in it.
C2_SuccessCarriesWarnings ==
    (Processing /\ pc = "done" /\ response.status = "SUCCESS" /\ FormatRan) =>
        \A k \in 1..Len(validation_result.messages) :
            validation_result.messages[k].level = "WARNING" =>
                \E j \in 1..Len(response.messages) :
                    response.messages[j] = validation_result.messages[k]

\* C3: with both validations requested, a structural outcome without Error
\* but with a Warning, and a business-rule violation, the BUSINESS_RULE_ERROR
\* response carries the structural messages followed by the business-rule
\* messages.
C3_BusinessErrorCarriesBothStages ==
    (/\ Processing /\ pc = "done" /\ FormatRan /\ BusinessRan
     /\ ~HasError(validation_result.messages)
     /\ HasWarning(validation_result.messages)
     /\ HasError(business_validation.messages)) =>
        /\ response.status = "BUSINESS_RULE_ERROR"
        /\ response.messages = validation_result.messages
                                   \o business_validation.messages

ValidatedSegments == validator_split_into_segments(request.edi_message)
ValidatedIds ==
    [k \in 1..Len(ValidatedSegments) |-> ValidatedSegments[k].segment_id]

\* C4: on 1 or 2 segments the closing-sequence check is skipped (no
\* INVALID_CLOSING_SEGMENTS); on 3 or more segments INVALID_CLOSING_SEGMENTS
\* is reported exactly when the last three ids differ from SE, GE, IEA.
C4_ClosingCheckGuarded ==
    (FormatRan /\ Len(ValidatedIds) >= 1) =>
        LET n == Len(ValidatedIds)
            reported == HasCode(validation_result.messages,
                                "INVALID_CLOSING_SEGMENTS")
        IN  /\ n < 3 => ~reported
            /\ n >= 3 =>
                 (reported <=> SubSeq(ValidatedIds, n - 2, n)
                                   # <<Word.SE, Word.GE, Word.IEA>>)

NamedCheckCodes ==
    {"EMPTY_MESSAGE", "INVALID_ISA_SEGMENT", "INSUFFICIENT_ISA_ELEMENTS",
     "ISA_ELEMENT_TOO_LONG", "MISSING_REQUIRED_SEGMENT",
     "INVALID_SEGMENT_ORDER", "INVALID_CLOSING_SEGMENTS",
     "INSUFFICIENT_ST_ELEMENTS", "INSUFFICIENT_BEG_ELEMENTS"}

\* C5: for every raw text and supported code the structural outcome is made
\* of the named checks' messages only (never the VALIDATION_ERROR message of
\* the exception path), and neither handler answers INTERNAL_ERROR.
C5_NoFaultOnShortInput ==
    /\ FormatRan =>
           \A k \in 1..Len(validation_result.messages) :
               validation_result.messages[k].code \in NamedCheckCodes
    /\ pc = "done" => response.status # "INTERNAL_ERROR"

\* a one-segment document has been structurally validated
C5_Witness ==
    /\ FormatRan /\ pc = "done"
    /\ Len(ValidatedIds) = 1
    /\ validation_result.messages # <<>>

\* C8: for a code other than 850, 810, 856, 997 ProcessEdiMessage returns
\* UNSUPPORTED_MESSAGE_TYPE with the single Error message of that code,
\* whatever the text and options, and no stage runs.
C8_UnsupportedTypeGate ==
    (Processing /\ request.message_type \notin SupportedCodes /\ pc # "gate") =>
        /\ pc = "done"
        /\ response.status = "UNSUPPORTED_MESSAGE_TYPE"
        /\ Len(response.messages) = 1
        /\ response.messages[1].level = "ERROR"
        /\ response.messages[1].code = "UNSUPPORTED_MESSAGE_TYPE"
        /\ response.data = NoData
        /\ ran = {}

C8_Witness ==
    /\ Processing /\ pc = "done"
    /\ request.message_type = "999"
    /\ request.options.validate_format
    /\ request.options.validate_business_rules
    /\ request.edi_message # <<>>
    /\ response.status = "UNSUPPORTED_MESSAGE_TYPE"

\* a text Python's float() accepts, on the characters of the model
NumericText(e) ==
    LET t == strip(e)
        body == IF t # <<>> /\ t[1] = "-" THEN Tail(t) ELSE t
    IN  \/ t = <<"n", "a", "n">>
        \/ body # <<>> /\ \A k \in 1..Len(body) : body[k] \in Digits

ParsedSegments == parser_split_into_segments(request.edi_message)

\* the line-item segments of the request's document kind, in order
LineItemSegments ==
    LET id == IF request.message_type = "850" THEN Word.PO1 ELSE Word.IT1
        IsItem(seg) == seg.segment_id = id
    IN  SelectSeq(ParsedSegments, IsItem)

\* element i (0-based) of a line-item segment is present, non-empty and not
\* numeric
BadNumber(seg, i) ==
    /\ Len(seg.elements) >= i + 1
    /\ seg.elements[i + 1] # <<>>
    /\ ~NumericText(seg.elements[i + 1])

EmptyNumber(seg, i) ==
    Len(seg.elements) >= i + 1 /\ seg.elements[i + 1] = <<>>

\* C9: when extraction runs on an 850 (810) document, an empty quantity or
\* unit-price element of a PO1 (IT1) segment yields the value 0.0, and a
\* non-empty non-numeric one in any such segment aborts the extraction: the
\* status is PARSING_ERROR and no typed record is returned.
C9_LineItemNumbers ==
    (Processing /\ ParseRan /\ request.message_type \in {"850", "810"}) =>
        LET items == LineItemSegments
            bad == \E k \in 1..Len(items) :
                       BadNumber(items[k], 1) \/ BadNumber(items[k], 3)
        IN  IF bad
            THEN /\ pc = "done"
                 /\ response.status = "PARSING_ERROR"
                 /\ response.data = NoData
                 /\ ~parse_result.success
            ELSE /\ parse_result.success
                 /\ Len(parse_result.data.value.line_items) = Len(items)
                 /\ \A k \in 1..Len(items) :
                        LET item == parse_result.data.value.line_items[k]
                        IN  /\ EmptyNumber(items[k], 1) =>
                                   item.quantity.value = 0
                            /\ EmptyNumber(items[k], 3) =>
                                   item.unit_price.value = 0

\* an 850 document with an empty quantity in one PO1 segment and a
\* non-numeric quantity in another has been answered
C9_Witness ==
    /\ Processing /\ pc = "done" /\ ParseRan
    /\ request.message_type = "850"
    /\ \E k \in 1..Len(LineItemSegments) : EmptyNumber(LineItemSegments[k], 1)
    /\ \E k \in 1..Len(LineItemSegments) : BadNumber(LineItemSegments[k], 1)
    /\ response.status = "PARSING_ERROR"

\* C12: for every outcome of structural and of business-rule validation,
\* has_errors is true iff the message list holds an Error message and
\* is_valid is its negation; Warning messages alone leave has_errors false.
C12_HasErrorsIffErrorMessage ==
    /\ FormatRan =>
           /\ validation_result.has_errors
                  <=> HasError(validation_result.messages)
           /\ validation_result.is_valid <=> ~validation_result.has_errors
    /\ BusinessRan =>
           /\ business_validation.has_errors
                  <=> HasError(business_validation.messages)
           /\ business_validation.is_valid <=> ~business_validation.has_errors

\* a Warning-only structural outcome
C12_Witness ==
    /\ FormatRan
    /\ HasWarning(validation_result.messages)
    /\ ~HasError(validation_result.messages)
    /\ validation_result.is_valid
    /\ ~validation_result.has_errors

MissingCount(msgs, id) ==
    Cardinality({k \in 1..Len(msgs) :
                     /\ msgs[k].code = "MISSING_REQUIRED_SEGMENT"
                     /\ msgs[k].field = id})

RequiredIds(message_type) ==
    LET required == validator_segment_patterns[message_type].required
    IN  {required[k] : k \in 1..Len(required)}

\* C13: structural validation of a non-empty segment sequence reports
\* exactly one MISSING_REQUIRED_SEGMENT Error, with field = r, for each
\* required id r of the code that occurs nowhere in the sequence, and none
\* for an id that occurs; so removing every segment with id r from a valid
\* 850 document yields exactly one such Error, naming r.
C13_OneMissingPerAbsentId ==
    (FormatRan /\ request.message_type \in SupportedCodes
        /\ request.edi_message # <<>>) =>
        LET msgs == validation_result.messages
            segs == ValidatedSegments
            ids == {segs[k].segment_id : k \in 1..Len(segs)}
        IN  segs # <<>> =>
            /\ \A r \in RequiredIds(request.message_type) :
                   MissingCount(msgs, r) = IF Word[r] \in ids THEN 0 ELSE 1
            /\ \A k \in 1..Len(msgs) :
                   msgs[k].code = "MISSING_REQUIRED_SEGMENT" =>
                       /\ msgs[k].level = "ERROR"
                       /\ msgs[k].field \in RequiredIds(request.message_type)

\* the valid 850 document without its SE and GE segments has been validated:
\* two messages, one naming each
C13_Witness ==
    /\ FormatRan /\ request.message_type = "850"
    /\ request.edi_message = join(NL, Keep(Valid850Lines, {1, 2, 3, 4, 7}, 1))
    /\ MissingCount(validation_result.messages, "SE") = 1
    /\ MissingCount(validation_result.messages, "GE") = 1
    /\ MissingCount(validation_result.messages, "BEG") = 0

\* the envelope of the segments matches the descriptor: opening ISA, GS,
\* ST, closing SE, GE, IEA, every required id present
EnvelopeMatches(segs) ==
    LET n == Len(segs)
        seg_ids == [k \in 1..n |-> segs[k].segment_id]
        ids == {seg_ids[k] : k \in 1..n}
    IN  /\ n >= 3
        /\ SubSeq(seg_ids, 1, 3) = <<Word.ISA, Word.GS, Word.ST>>
        /\ SubSeq(seg_ids, n - 2, n) = <<Word.SE, Word.GE, Word.IEA>>
        /\ \A r \in RequiredIds(request.message_type) : Word[r] \in ids

\* every quantity and unit price of a PO1 / IT1 segment is empty or numeric
NumericFieldsWellFormed(segs) ==
    \A k \in 1..Len(segs) :
        segs[k].segment_id \in {Word.PO1, Word.IT1} =>
            /\ ~BadNumber(segs[k], 1)
            /\ ~BadNumber(segs[k], 3)

\* the element counts validate_format asks for
ElementCountsSuffice(segs) ==
    /\ Len(segs[1].elements) >= 16
    /\ \A k \in 1..Len(segs) :
           /\ segs[k].segment_id = Word.ST => Len(segs[k].elements) >= 2
           /\ segs[k].segment_id = Word.BEG => Len(segs[k].elements) >= 3

\* C14 as stated: a document whose first three segments are ISA, GS, ST,
\* whose last three are SE, GE, IEA, which contains every required id and
\* whose numeric fields are well-formed is structurally valid.
C14_EnvelopeImpliesValid ==
    (FormatRan /\ request.message_type \in SupportedCodes) =>
        LET segs == ValidatedSegments
        IN  (EnvelopeMatches(segs) /\ NumericFieldsWellFormed(segs)) =>
                /\ ~validation_result.has_errors
                /\ validation_result.is_valid

\* C14 amended: such a document is structurally valid provided its ISA
\* segment has at least 16 elements, every ST segment at least 2 elements
\* and every BEG segment at least 3 elements.
C14_EnvelopeAndCountsImplyValid ==
    (FormatRan /\ request.message_type \in SupportedCodes) =>
        LET segs == ValidatedSegments
        IN  (EnvelopeMatches(segs) /\ NumericFieldsWellFormed(segs)
                /\ ElementCountsSuffice(segs)) =>
                /\ ~validation_result.has_errors
                /\ validation_result.is_valid

C14_Witness ==
    /\ FormatRan /\ request.message_type = "850"
    /\ validation_result.is_valid
    /\ LET segs == ValidatedSegments
       IN  /\ EnvelopeMatches(segs) /\ NumericFieldsWellFormed(segs)
           /\ ElementCountsSuffice(segs)
           /\ Len(segs) > 7

\* C17: when the first segment id of a non-empty segment sequence is not
\* ISA, structural validation reports Error INVALID_ISA_SEGMENT and nothing
\* else: no later check of the stage adds a message.
C17_HeaderMismatchIsTerminal ==
    (FormatRan /\ request.message_type \in SupportedCodes
        /\ ValidatedSegments # <<>> /\ ValidatedIds[1] # Word.ISA) =>
        /\ HasCode(validation_result.messages, "INVALID_ISA_SEGMENT")
        /\ \A k \in 1..Len(validation_result.messages) :
               /\ validation_result.messages[k].code = "INVALID_ISA_SEGMENT"
               /\ validation_result.messages[k].level = "ERROR"

\* C18: a text that tokenizes to zero segments gets exactly one message,
\* Error EMPTY_MESSAGE, with is_valid false and has_errors true.
C18_EmptyMessageOnly ==
    (FormatRan /\ request.message_type \in SupportedCodes
        /\ ValidatedSegments = <<>>) =>
        /\ validation_result.messages =
               <<ProcessingMessage("ERROR", "EMPTY_MESSAGE", "", 0, 0, <<>>)>>
        /\ ~validation_result.is_valid
        /\ validation_result.has_errors

C18_Witness ==
    /\ FormatRan /\ request.message_type \in SupportedCodes
    /\ request.edi_message # <<>>
    /\ ValidatedSegments = <<>>
    /\ Len(validation_result.messages) = 1
    /\ validation_result.messages[1].code = "EMPTY_MESSAGE"

\* C20: ValidateEdiMessage on a supported code answers SUCCESS when the
\* structural outcome is valid and VALIDATION_ERROR otherwise, with exactly
\* the structural messages; it never extracts, so malformed line-item
\* numbers never produce PARSING_ERROR or BUSINESS_RULE_ERROR.
C20_ValidateNeverExtracts ==
    (request.op = "validate" /\ pc = "done"
        /\ request.message_type \in SupportedCodes) =>
        /\ ran = {"validate_format", "detect_edi_version",
                  "detect_message_type"}
        /\ parse_result = NoParse
        /\ business_validation = NoResult
        /\ response.status =
               (IF validate_format(request.edi_message,
                                   request.message_type).is_valid
                THEN "SUCCESS" ELSE "VALIDATION_ERROR")
        /\ response.status \notin {"PARSING_ERROR", "BUSINESS_RULE_ERROR"}
        /\ response.messages =
               validate_format(request.edi_message,
                               request.message_type).messages

C20_Witness ==
    /\ request.op = "validate" /\ pc = "done"
    /\ request.message_type = "850"
    /\ \E k \in 1..Len(ValidatedSegments) :
           /\ ValidatedSegments[k].segment_id = Word.PO1
           /\ BadNumber(ValidatedSegments[k], 1)
    /\ ~parse_message(request.edi_message, request.message_type).success
    /\ response.status = "SUCCESS"

\* C25: for each position i in 1..3 with the expected id ISA, GS, ST, the
\* structural outcome holds exactly one INVALID_SEGMENT_ORDER Error with
\* field = the expected id and position i when the document has a segment at
\* position i whose id differs from the expected id, and none otherwise; so
\* there is none at all when the first three ids are ISA, GS, ST.
C25_OpeningSequence ==
    (pc = "done" /\ FormatRan
        /\ request.message_type \in DOMAIN validator_segment_patterns) =>
        LET segs == ValidatedSegments
            ids == [k \in 1..Len(segs) |-> segs[k].segment_id]
            msgs == validation_result.messages
            opening == <<Word.ISA, Word.GS, Word.ST>>
            name == <<"ISA", "GS", "ST">>
            reports(i) ==
                { k \in 1..Len(msgs) :
                    /\ msgs[k].code = "INVALID_SEGMENT_ORDER"
                    /\ msgs[k].field = name[i]
                    /\ msgs[k].index = i }
        IN  /\ \A i \in 1..3 :
                /\ Cardinality(reports(i)) <= 1
                /\ reports(i) # {} <=> (i <= Len(ids) /\ ids[i] # opening[i])
                /\ \A k \in reports(i) :
                       msgs[k].level = "ERROR" /\ msgs[k].detail = ids[i]
            /\ \A k \in 1..Len(msgs) :
                   msgs[k].code = "INVALID_SEGMENT_ORDER" =>
                       \E i \in 1..3 : k \in reports(i)

\* a document whose second and third segments are exchanged: positions 2 and
\* 3 are reported, position 1 is not
C25_Witness ==
    /\ pc = "done" /\ FormatRan
    /\ request.message_type \in DOMAIN validator_segment_patterns
    /\ Len(ValidatedIds) >= 3
    /\ ValidatedIds[1] = Word.ISA
    /\ ValidatedIds[2] # Word.GS
    /\ ValidatedIds[3] # Word.ST
    /\ Cardinality({ k \in 1..Len(validation_result.messages) :
           validation_result.messages[k].code = "INVALID_SEGMENT_ORDER" }) = 2

\* the record of a kind with every field at its default
DefaultRecord(message_type) ==
    CASE message_type = "850" ->
             [kind |-> "purchase_order", value |-> PurchaseOrderData]
      [] message_type = "810" -> [kind |-> "invoice", value |-> InvoiceData]
      [] message_type = "856" ->
             [kind |-> "advance_ship_notice", value |-> AdvanceShipNoticeData]
      [] message_type = "997" ->
             [kind |-> "functional_acknowledgment",
              value |-> FunctionalAcknowledgmentData]

\* C30: ProcessEdiMessage on a supported code with neither validate_format
\* nor validate_business_rules requested runs extraction only and ends in
\* SUCCESS or PARSING_ERROR; when no PO1 / IT1 numeric field is malformed it
\* ends in SUCCESS with a record of the kind and no message, whatever the
\* structure of the document, and on a text without segments the record
\* holds the default values.
C30_ExtractionOnly ==
    (pc = "done" /\ Processing /\ request.message_type \in SupportedCodes
        /\ ~request.options.validate_format
        /\ ~request.options.validate_business_rules) =>
        LET segs == parser_split_into_segments(request.edi_message)
        IN  /\ ParseRan /\ ~FormatRan /\ ~BusinessRan
            /\ response.status \in {"SUCCESS", "PARSING_ERROR"}
            /\ NumericFieldsWellFormed(segs) =>
                   /\ response.status = "SUCCESS"
                   /\ response.messages = <<>>
                   /\ response.data.kind
                          = DefaultRecord(request.message_type).kind
                   /\ segs = <<>> =>
                          response.data = DefaultRecord(request.message_type)

\* the empty text processed without validation: SUCCESS with the default
\* purchase order
C30_Witness ==
    /\ pc = "done" /\ Processing /\ request.message_type = "850"
    /\ ~request.options.validate_format
    /\ ~request.options.validate_business_rules
    /\ request.edi_message = <<>>
    /\ response.status = "SUCCESS"
    /\ response.messages = <<>>
    /\ response.data = DefaultRecord("850")

\* C23: ProcessEdiMessage on the seven-segment valid 997 document whose
\* AK1 elements are 850, 0001, A answers SUCCESS with a functional
\* acknowledgment whose original_transaction_set_id is 850 and whose
\* original_control_number is 0001, whatever validation is requested.
C23_MinimalAcknowledgment ==
    (pc = "done" /\ Processing /\ request.message_type = "997"
        /\ request.edi_message \in Ack997Docs) =>
        /\ response.status = "SUCCESS"
        /\ response.data.kind = "functional_acknowledgment"
        /\ response.data.value.original_transaction_set_id = <<"8", "5", "0">>
        /\ response.data.value.original_control_number =
               <<"0", "0", "0", "1">>

\* the scenario answered with both validations requested: the document is
\* structurally valid and has seven segments
C23_Witness ==
    /\ pc = "done" /\ Processing /\ request.message_type = "997"
    /\ request.edi_message = join(NL, Ack997Lines(IsaLine))
    /\ request.options.validate_format
    /\ request.options.validate_business_rules
    /\ FormatRan /\ BusinessRan
    /\ validation_result.is_valid /\ validation_result.messages = <<>>
    /\ Len(ValidatedSegments) = 7
    /\ response.status = "SUCCESS"

----------------------------------------------------------------------------
(* Specification SpecTok: the tokenizers applied to every short raw text   *)

MaxLen == 5

TokAlphabet == {NL, SP, STAR, "A"}

RECURSIVE TextsUpTo(_, _)
TextsUpTo(alphabet, n) ==
    IF n = 0 THEN {<<>>}
    ELSE LET shorter == TextsUpTo(alphabet, n - 1)
         IN  shorter \cup {Append(t, c) : t \in shorter, c \in alphabet}

TokInit ==
    /\ raw \in TextsUpTo(TokAlphabet, MaxLen)
    /\ fn_pc = "input"
    /\ fn_out = [op |-> "none"]
    /\ SvcIdle

TokenizeParser ==
    /\ fn_pc = "input"
    /\ fn_pc' = "done"
    /\ fn_out' = [op |-> "parser_split",
                  segments |-> parser_split_into_segments(raw)]
    /\ UNCHANGED <<raw, svc_vars, pool_vars>>

TokenizeValidator ==
    /\ fn_pc = "input"
    /\ fn_pc' = "done"
    /\ fn_out' = [op |-> "validator_split",
                  segments |-> validator_split_into_segments(raw)]
    /\ UNCHANGED <<raw, svc_vars, pool_vars>>

TokNext == TokenizeParser \/ TokenizeValidator

SpecTok == TokInit /\ [][TokNext]_vars

Tokenized == fn_pc = "done" /\ fn_out.op \in {"parser_split", "validator_split"}

\* The lines of the original raw text (no stripping of the whole text), and
\* the 1-based indices of those that yield a segment
OriginalLines(text) == split(text, NL)

YieldsSegment(line) ==
    strip(line) # <<>> /\ Len(split(strip(line), STAR)) >= 2

RECURSIVE SegmentLineIndices(_, _)
SegmentLineIndices(lines, k) ==
    IF k > Len(lines) THEN <<>>
    ELSE (IF YieldsSegment(lines[k]) THEN <<k>> ELSE <<>>)
         \o SegmentLineIndices(lines, k + 1)

LineNumbers(segments) == [k \in 1..Len(segments) |-> segments[k].line_number]

\* C29: for every raw text the parser's tokenizer and the validator's
\* tokenizer return the same sequence of segments: same ids, elements,
\* line numbers and positions.
C29_TokenizersAgree ==
    Tokenized =>
        /\ fn_out.op = "parser_split" =>
               fn_out.segments = validator_split_into_segments(raw)
        /\ fn_out.op = "validator_split" =>
               fn_out.segments = parser_split_into_segments(raw)

\* the parser has tokenized a text whose first line yields no segment, so
\* that line number and position differ
C29_Witness ==
    /\ Tokenized /\ fn_out.op = "parser_split"
    /\ Len(fn_out.segments) = 1
    /\ fn_out.segments[1].line_number = 2
    /\ fn_out.segments[1].position = 1
    /\ fn_out.segments[1].elements # <<>>

\* C6: every segment's lineNumber is the 1-based index of its source line in
\* the original raw text split on line boundaries, also when the raw text
\* begins with blank or whitespace-only lines.
C6_LineNumberIsOriginalIndex ==
    Tokenized =>
        LineNumbers(fn_out.segments)
            = SegmentLineIndices(OriginalLines(raw), 1)

\* C7: tokenize returns; positions are exactly 1..n in list order; skipped
\* lines produce no segment and do not advance position; lineNumber strictly
\* increases with position.
C7_PositionsContiguous ==
    Tokenized =>
        LET segs == fn_out.segments
        IN  /\ \A k \in 1..Len(segs) : segs[k].position = k
            /\ \A k \in 1..(Len(segs) - 1) :
                   segs[k].line_number < segs[k + 1].line_number
            /\ Len(segs) = Len(SegmentLineIndices(OriginalLines(raw), 1))

\* a text with a skipped line between two segments has been tokenized
C7_Witness ==
    /\ Tokenized
    /\ Len(fn_out.segments) = 2
    /\ fn_out.segments[2].line_number = 3
    /\ fn_out.segments[2].position = 2

----------------------------------------------------------------------------
(* Specification SpecDetect: detect_edi_version on envelope headers        *)

MaxIsaElements == 18

Literal004010 == <<"0", "0", "4", "0", "1", "0">>
Literal005010 == <<"0", "0", "5", "0", "1", "0">>

\* an ISA line of n elements, all "0" except element p (none when p = 0)
IsaWith(n, p, value) ==
    Line(<<Word.ISA>> \o [k \in 1..n |-> IF k = p THEN value ELSE <<"0">>])

SecondLines ==
    { <<>>,
      Line(<<Word.GS, Literal004010>>),
      Line(<<Word.GS, Literal005010>>),
      Line(<<Word.GS, <<"P">>, Literal005010>>) }

DetectTexts ==
    { IF second = <<>> THEN IsaWith(n, p, value)
      ELSE join(NL, <<IsaWith(n, p, value), second>>) :
          n \in 15..MaxIsaElements, p \in 0..MaxIsaElements,
          value \in {Literal004010, Literal005010}, second \in SecondLines }

DetectInit ==
    /\ raw \in DetectTexts
    /\ fn_pc = "input"
    /\ fn_out = [op |-> "none"]
    /\ SvcIdle

DetectVersion ==
    /\ fn_pc = "input"
    /\ fn_pc' = "done"
    /\ fn_out' = [op |-> "detect_edi_version",
                  value |-> detect_edi_version(raw)]
    /\ UNCHANGED <<raw, svc_vars, pool_vars>>

DetectNext == DetectVersion

SpecDetect == DetectInit /\ [][DetectNext]_vars

\* the trailing field of the envelope-header line: the last element of the
\* first segment whose id is ISA (empty when there is none)
HeaderTrailingField(text) ==
    LET segs == validator_split_into_segments(text)
        IsIsa(seg) == seg.segment_id = Word.ISA
        headers == SelectSeq(segs, IsIsa)
    IN  IF headers = <<>> \/ headers[1].elements = <<>> THEN <<>>
        ELSE headers[1].elements[Len(headers[1].elements)]

\* C10: detect_edi_version returns "005010" (resp. "004010") exactly when
\* the trailing field of the ISA line is that marker, and "Unknown"
\* otherwise: a marker on a later line or at another field position is not
\* reported, a 16-element header ending in the marker is.
C10_VersionFromTrailingField ==
    (fn_pc = "done" /\ fn_out.op = "detect_edi_version") =>
        fn_out.value =
            (IF HeaderTrailingField(raw) = Literal005010 THEN "005010"
             ELSE IF HeaderTrailingField(raw) = Literal004010 THEN "004010"
             ELSE "Unknown")

----------------------------------------------------------------------------
(* Specification SpecType: detect_message_type on short documents          *)

MaxTypeLines == 2

Code850 == <<"8", "5", "0">>

TypeLines ==
    { Line(<<Word.ST, Code850, <<"1">> >>),
      Line(<<Word.ST, <<"8", "5", "0", "1">> >>),
      Line(<<Word.ST, <<"8", "5">> >>),
      Line(<<Word.ST, <<"A">> >>),
      Line(<<Word.N1, Word.ST, Code850>>),
      Line(<<<<"C", "U">> \o Word.ST, Code850>>),
      Line(<<Word.GS, <<"P">> >>),
      Line(<<Word.BEG, Code850>>) }

TypeTexts == { join(NL, lines) : lines \in SeqsUpTo(TypeLines, MaxTypeLines) }

TypeInit ==
    /\ raw \in TypeTexts
    /\ fn_pc = "input"
    /\ fn_out = [op |-> "none"]
    /\ SvcIdle

DetectType ==
    /\ fn_pc = "input"
    /\ fn_pc' = "done"
    /\ fn_out' = [op |-> "detect_message_type",
                  value |-> detect_message_type(raw)]
    /\ UNCHANGED <<raw, svc_vars, pool_vars>>

TypeNext == DetectType

SpecType == TypeInit /\ [][TypeNext]_vars

\* the first element of an ST segment when it is three digits
IsTypeCode(e) == Len(e) = 3 /\ \A k \in 1..3 : e[k] \in Digits

TypeCodeSegments(text) ==
    LET IsTyped(seg) == /\ seg.segment_id = Word.ST
                        /\ seg.elements # <<>>
                        /\ IsTypeCode(seg.elements[1])
    IN  SelectSeq(validator_split_into_segments(text), IsTyped)

\* C11: detect_message_type returns the first element of a line whose
\* segment id is exactly ST when that element is a 3-character numeric code,
\* and "Unknown" otherwise; digits after "ST*" inside another segment, and
\* the first three digits of a longer element, are not reported.
C11_TypeFromStSegment ==
    (fn_pc = "done" /\ fn_out.op = "detect_message_type") =>
        fn_out.value =
            (IF TypeCodeSegments(raw) # <<>>
             THEN TypeCodeSegments(raw)[1].elements[1]
             ELSE Unknown)

----------------------------------------------------------------------------
(* Specification SpecParse: parse_message, then validate_business_rules on *)
(* the extracted record, on short runs of party and line-item segments     *)

MaxParseLines == 3

ParseLines ==
    { Line(<<Word.N1, Word["BY"], <<"A">> >>),
      Line(<<Word.N1, Word["BY"], <<"B">> >>),
      Line(<<Word.N1, Word["BY"]>>),
      Line(<<Word.N1, Word["ST"], <<"A">> >>),
      Line(<<Word.N1, Word["SE"], <<"B">> >>),
      Line(<<Word.N1, Word["BT"], <<"A">> >>),
      Line(<<Word.N1, Word["RE"], <<"B">> >>),
      Line(<<Word.N1, Word["SF"], <<"A">> >>),
      Line(<<Word.N1, Word["CA"], <<"B">> >>),
      Line(<<Word.N1, <<"Z", "Z">>, <<"A">> >>),
      Line(<<Word.BEG, <<"0">>, <<"P">> >>),
      Line(<<Word.PO1, <<"1">>, <<"0">>, <<"E">> >>),
      Line(<<Word.PO1, <<"1">>, <<"5">> >>),
      Line(<<Word.PO1, <<>>, <<"2">> >>),
      Line(<<Word.PO1, <<"1">>, <<"X">> >>) }

ParseTexts == { join(NL, lines) : lines \in SeqsUpTo(ParseLines, MaxParseLines) }

\* the codes parse_message has a branch for
ParseCodes == {"850", "810", "856", "997"}

ParseInit ==
    /\ raw \in ParseTexts
    /\ fn_pc = "input"
    /\ fn_out = [op |-> "none"]
    /\ SvcIdle

ParseFn ==
    /\ fn_pc = "input"
    /\ \E message_type \in ParseCodes :
           fn_out' = [op |-> "parse_message",
                      message_type |-> message_type,
                      parse_result |-> parse_message(raw, message_type)]
    /\ fn_pc' = "parsed"
    /\ UNCHANGED <<raw, svc_vars, pool_vars>>

RulesFn ==
    /\ fn_pc = "parsed"
    /\ fn_out.parse_result.success
    /\ fn_out' = [op |-> "validate_business_rules",
                  message_type |-> fn_out.message_type,
                  parse_result |-> fn_out.parse_result,
                  business_validation |->
                      validate_business_rules(fn_out.parse_result.data.value,
                                              fn_out.message_type)]
    /\ fn_pc' = "done"
    /\ UNCHANGED <<raw, svc_vars, pool_vars>>

ParseNext == ParseFn \/ RulesFn

SpecParse == ParseInit /\ [][ParseNext]_vars

\* a record was extracted from raw
Extracted ==
    /\ fn_pc \in {"parsed", "done"}
    /\ fn_out.op \in {"parse_message", "validate_business_rules"}
    /\ fn_out.parse_result.success

ExtractedData == fn_out.parse_result.data.value

\* the role codes a record kind has a slot for
RecognizedRoles(message_type) ==
    CASE message_type = "850" -> {"BY", "SE", "ST", "BT"}
      [] message_type = "810" -> {"BT", "RE", "SF", "ST"}
      [] message_type = "856" -> {"SF", "ST", "BT", "CA"}
      [] OTHER -> {}

Slot(data, role) ==
    CASE role = "BY" -> data.buyer
      [] role = "SE" -> data.seller
      [] role = "ST" -> data.ship_to
      [] role = "BT" -> data.bill_to
      [] role = "RE" -> data.remit_to
      [] role = "SF" -> data.ship_from
      [] role = "CA" -> data.carrier

\* the N1 segments of the text whose first element is the role code
PartySegments(text, role) ==
    LET HasRole(seg) == /\ seg.segment_id = Word.N1
                        /\ seg.elements # <<>>
                        /\ seg.elements[1] = Word[role]
    IN  SelectSeq(parser_split_into_segments(text), HasRole)

\* C15: when a document has two or more N1 segments with the same
\* recognized role code, the record's slot for that role holds the role
\* code and the name of the last of them, for 850, 810 and 856.
C15_LastPartyWins ==
    Extracted =>
        \A role \in RecognizedRoles(fn_out.message_type) :
            LET parties == PartySegments(raw, role)
            IN  Len(parties) >= 2 =>
                    Slot(ExtractedData, role) =
                        Party(Word[role],
                              ElementOr(parties[Len(parties)].elements, 1))

\* C16: business-rule validation of a purchase order with a line item of
\* quantity 0 reports Error INVALID_QUANTITY with that item's index in its
\* field, and has_errors, whatever the rest of the record holds.
C16_ZeroQuantityIsError ==
    (fn_pc = "done" /\ fn_out.message_type = "850") =>
        \A k \in 1..Len(ExtractedData.line_items) :
            ExtractedData.line_items[k].quantity.value = 0 =>
                /\ fn_out.business_validation.has_errors
                /\ \E j \in 1..Len(fn_out.business_validation.messages) :
                       fn_out.business_validation.messages[j] =
                           ProcessingMessage("ERROR", "INVALID_QUANTITY",
                               "line_items[i].quantity_ordered", k - 1, 0, <<>>)

C16_Witness ==
    /\ fn_pc = "done" /\ fn_out.message_type = "850"
    /\ ExtractedData.po_number # <<>>
    /\ Len(ExtractedData.line_items) = 2
    /\ ExtractedData.line_items[1].quantity.value > 0
    /\ ExtractedData.line_items[2].quantity.value = 0
    /\ ExtractedData.line_items[2].line_number # <<>>
    /\ \E j \in 1..Len(fn_out.business_validation.messages) :
           /\ fn_out.business_validation.messages[j].code = "INVALID_QUANTITY"
           /\ fn_out.business_validation.messages[j].index = 1

----------------------------------------------------------------------------
(* Specification SpecFault: the service with an exception raised by a      *)
(* statement of ProcessEdiMessage or of a stage it calls                   *)

\* str(e) of two different exceptions
FaultTexts == { <<"k", "e", "y">>, <<"o", "o", "m">> }

\* validate_format lines 131-138 for an exception e raised after the
\* messages msgs were appended
format_fault(msgs, e) ==
    [is_valid |-> FALSE,
     messages |-> Append(msgs, ProcessingMessage("ERROR", "VALIDATION_ERROR",
                                                 "", 0, 0, e)),
     has_errors |-> TRUE, raised |-> FALSE]

\* validate_business_rules lines 186-193
business_fault(msgs, e) ==
    [is_valid |-> FALSE,
     messages |-> Append(msgs, ProcessingMessage("ERROR", "BUSINESS_RULE_ERROR",
                                                 "", 0, 0, e)),
     has_errors |-> TRUE, raised |-> FALSE]

\* an exception inside validate_format's try block: caught at line 131, the
\* handler goes on at line 104 with the outcome of the except branch
FaultInFormat ==
    /\ pc = "format"
    /\ request.options.validate_format
    /\ \E e \in FaultTexts :
       \E n \in 0..Len(validate_format(request.edi_message,
                                       request.message_type).messages) :
           LET appended == SubSeq(validate_format(request.edi_message,
                                      request.message_type).messages, 1, n)
               result == format_fault(appended, e)
               extended == messages \o result.messages
           IN  /\ validation_result' = result
               /\ messages' = extended
               /\ response' = ProcessEdiMessageResponse("VALIDATION_ERROR",
                                  request.message_type, extended)
    /\ ran' = ran \cup {"validate_format", "fault"}
    /\ pc' = "done"
    /\ UNCHANGED <<fn_vars, pool_vars, request, parse_result, business_validation>>

\* an exception inside parse_message's try block: caught at line 93, the
\* handler answers PARSING_ERROR with parse_result.error_message
FaultInParse ==
    /\ pc = "parse"
    /\ \E e \in FaultTexts :
           response' = ProcessEdiMessageResponse("PARSING_ERROR",
                           request.message_type,
                           <<ProcessingMessage("ERROR", "PARSING_ERROR", "",
                                               0, 0, e)>>)
    /\ parse_result' = ParseResult(FALSE, NoData, <<>>, "Parsing error")
    /\ ran' = ran \cup {"parse_message", "fault"}
    /\ pc' = "done"
    /\ UNCHANGED <<fn_vars, pool_vars, request, messages, validation_result,
                   business_validation>>

\* an exception inside validate_business_rules' try block: caught at line
\* 186, before or after the rules' messages were taken over
FaultInBusiness ==
    /\ pc = "business"
    /\ request.options.validate_business_rules
    /\ \E e \in FaultTexts :
       \E appended \in {<<>>, validate_business_rules(parse_result.data.value,
                                  request.message_type).messages} :
           LET result == business_fault(appended, e)
               extended == messages \o result.messages
           IN  /\ business_validation' = result
               /\ messages' = extended
               /\ response' = ProcessEdiMessageResponse("BUSINESS_RULE_ERROR",
                                  request.message_type, extended)
    /\ ran' = ran \cup {"validate_business_rules", "fault"}
    /\ pc' = "done"
    /\ UNCHANGED <<fn_vars, pool_vars, request, validation_result, parse_result>>

\* an exception raised by a statement of ProcessEdiMessage itself (the gate,
\* the statements between the stages, the building of the response):
\* caught at line 169
FaultInHandler ==
    /\ request.op = "process"
    /\ pc \in {"gate", "format", "parse", "business", "respond"}
    /\ \E e \in FaultTexts :
           response' = InternalError(request.message_type, e)
    /\ ran' = ran \cup {"fault"}
    /\ pc' = "done"
    /\ UNCHANGED <<fn_vars, pool_vars, request, messages, validation_result, parse_result,
                   business_validation>>

\* the requests of SpecFault: ProcessEdiMessage on the 850 document and
\* its variants
FaultDocs == RemovalDocs \cup ShortElementDocs

ReceiveFaulty ==
    /\ pc = "idle"
    /\ \E doc \in FaultDocs, code \in Codes, options \in Options :
           request' = [op |-> "process", edi_message |-> doc,
                       message_type |-> code, options |-> options]
    /\ pc' = "gate"
    /\ UNCHANGED <<fn_vars, pool_vars, messages, validation_result, parse_result,
                   business_validation, response, ran>>

FaultNext ==
    \/ ReceiveFaulty
    \/ CheckSupported
    \/ ValidateFormat
    \/ ParseMessage
    \/ ValidateBusinessRules
    \/ BuildResponse
    \/ Return
    \/ FaultInFormat
    \/ FaultInParse
    \/ FaultInBusiness
    \/ FaultInHandler

SpecFault == Init /\ [][FaultNext]_vars

Faulted == "fault" \in ran

\* C19: a fault raised during any stage of ProcessEdiMessage is answered
\* with status INTERNAL_ERROR and one generic INTERNAL_ERROR message that is
\* the same for every fault and carries no exception text.
C19_FaultIsGenericInternalError ==
    (request.op = "process" /\ pc = "done" /\ Faulted) =>
        /\ response.status = "INTERNAL_ERROR"
        /\ response.messages =
               <<ProcessingMessage("ERROR", "INTERNAL_ERROR", "", 0, 0, <<>>)>>

----------------------------------------------------------------------------
(* Specification SpecTwice: one service instance answering a bounded run   *)
(* of calls one after the other, each returned response kept in history    *)

MaxCalls == 3

\* a valid 850 document with one line item, and one with an over-long ISA
\* element and no line item
TwiceDocs ==
    { join(NL, <<IsaLine, GsLine, StLine,
                 Line(<<Word.BEG, <<"0">>, <<"P">>, <<"D">> >>),
                 Line(<<Word.PO1, <<"1">>, <<"5">>, <<"E">>, <<"2">> >>),
                 SeLine, GeLine, IeaLine>>),
      join(NL, <<IsaLongLine, GsLine, StLine,
                 Line(<<Word.BEG, <<"0">>, <<"P">>, <<"D">> >>),
                 SeLine, GeLine, IeaLine>>) }

TwiceOptions == { o \in Options : o.include_raw_segments }

ReceiveAgain ==
    /\ pc = "idle"
    /\ Len(history) < MaxCalls
    /\ \/ \E doc \in TwiceDocs, options \in TwiceOptions :
              request' = [op |-> "process", edi_message |-> doc,
                          message_type |-> "850", options |-> options]
       \/ \E doc \in TwiceDocs :
              request' = [op |-> "validate", edi_message |-> doc,
                          message_type |-> "850", options |-> NoOptions]
    /\ pc' = "gate"
    /\ UNCHANGED <<fn_vars, pool_vars, messages, validation_result,
                   parse_result, business_validation, response, ran>>

\* the return of a call that leaves the list `messages` to the next call
ReturnLogged_keeping_messages ==
    /\ pc = "done"
    /\ history' = Append(history, [request |-> request, response |-> response])
    /\ pc' = "idle"
    /\ request' = NoRequest
    /\ validation_result' = NoResult
    /\ parse_result' = NoParse
    /\ business_validation' = NoResult
    /\ response' = NoResponse
    /\ ran' = {}
    /\ UNCHANGED <<fn_vars, calls, messages>>

\* the response is returned to the caller; the handler's locals are gone
ReturnLogged ==
    /\ pc = "done"
    /\ history' = Append(history, [request |-> request, response |-> response])
    /\ pc' = "idle"
    /\ request' = NoRequest
    /\ messages' = <<>>
    /\ validation_result' = NoResult
    /\ parse_result' = NoParse
    /\ business_validation' = NoResult
    /\ response' = NoResponse
    /\ ran' = {}
    /\ UNCHANGED <<fn_vars, calls>>

TwiceNext ==
    \/ ReceiveAgain
    \/ CheckSupported
    \/ ValidateFormat
    \/ ParseMessage
    \/ ValidateBusinessRules
    \/ BuildResponse
    \/ ValidateEdiMessage
    \/ ReturnLogged

SpecTwice == Init /\ [][TwiceNext]_vars

\* C21: two ProcessEdiMessage calls with the same text, code and options
\* return the same status, the same messages in the same order, the same
\* typed record and the same raw segments, whatever calls were answered
\* before or between them.
C21_SameRequestSameResponse ==
    \A i, j \in 1..Len(history) :
        (history[i].request.op = "process"
            /\ history[i].request = history[j].request) =>
            history[i].response = history[j].response

\* the same request answered second and third, after a different call that
\* ended in BUSINESS_RULE_ERROR
C21_Witness ==
    /\ Len(history) = 3
    /\ history[1].request.op = "process"
    /\ history[1].response.status = "BUSINESS_RULE_ERROR"
    /\ history[2].request.op = "process"
    /\ history[2].request # history[1].request
    /\ history[3].request = history[2].request
    /\ history[3].response.status = "SUCCESS"
    /\ history[3].response.data # NoData

----------------------------------------------------------------------------
(* Specification SpecPool: the calls of a worker pool served by one shared *)
(* servicer; each call has its own locals, the steps of different calls    *)
(* interleave                                                              *)

MaxWorkers == 2

Workers == 1..MaxWorkers

\* the locals of a call that has not started
IdleCall ==
    [pc |-> "idle", request |-> NoRequest, messages |-> <<>>,
     validation_result |-> NoResult, parse_result |-> NoParse,
     business_validation |-> NoResult, response |-> NoResponse]

NewCall(req) == [IdleCall EXCEPT !.pc = "gate", !.request = req]

\* one step of ProcessEdiMessage / ValidateEdiMessage on the locals c of a
\* call: the gate, one stage, or the building of the response
HandlerStep(c) ==
    LET req == c.request
    IN  CASE c.pc = "gate" /\ req.op = "validate" ->
               IF ~is_message_type_supported(req.message_type)
               THEN [c EXCEPT
                       !.pc = "done",
                       !.response = ValidateEdiMessageResponse(
                           "UNSUPPORTED_MESSAGE_TYPE",
                           <<ProcessingMessage("ERROR",
                                 "UNSUPPORTED_MESSAGE_TYPE", "", 0, 0, <<>>)>>,
                           "", <<>>)]
               ELSE LET result == validate_format(req.edi_message,
                                                  req.message_type)
                    IN  [c EXCEPT
                           !.pc = "done",
                           !.validation_result = result,
                           !.response = ValidateEdiMessageResponse(
                               IF result.is_valid THEN "SUCCESS"
                               ELSE "VALIDATION_ERROR",
                               result.messages,
                               detect_edi_version(req.edi_message),
                               detect_message_type(req.edi_message))]
          [] c.pc = "gate" /\ req.op = "process" ->
               IF ~is_message_type_supported(req.message_type)
               THEN [c EXCEPT
                       !.pc = "done",
                       !.response = ProcessEdiMessageResponse(
                           "UNSUPPORTED_MESSAGE_TYPE", req.message_type,
                           <<ProcessingMessage("ERROR",
                                 "UNSUPPORTED_MESSAGE_TYPE", "", 0, 0, <<>>)>>)]
               ELSE [c EXCEPT !.pc = "format"]
          [] c.pc = "format" ->
               IF req.options.validate_format
               THEN LET result == validate_format(req.edi_message,
                                                  req.message_type)
                        extended == IF ~result.is_valid
                                    THEN c.messages \o result.messages
                                    ELSE c.messages
                    IN  IF format_ends_request(result)
                        THEN [c EXCEPT
                                !.pc = "done",
                                !.validation_result = result,
                                !.messages = extended,
                                !.response = ProcessEdiMessageResponse(
                                    "VALIDATION_ERROR", req.message_type,
                                    extended)]
                        ELSE [c EXCEPT !.pc = "parse",
                                       !.validation_result = result,
                                       !.messages = extended]
               ELSE [c EXCEPT !.pc = "parse"]
          [] c.pc = "parse" ->
               LET result == parse_message(req.edi_message, req.message_type)
               IN  IF ~result.success
                   THEN [c EXCEPT
                           !.pc = "done",
                           !.parse_result = result,
                           !.response = ProcessEdiMessageResponse(
                               "PARSING_ERROR", req.message_type,
                               <<ProcessingMessage("ERROR", "PARSING_ERROR",
                                                   "", 0, 0, <<>>)>>)]
                   ELSE [c EXCEPT !.pc = "business", !.parse_result = result]
          [] c.pc = "business" ->
               IF req.options.validate_business_rules
               THEN LET result == validate_business_rules(
                                      c.parse_result.data.value,
                                      req.message_type)
                        extended == IF ~result.is_valid
                                    THEN c.messages \o result.messages
                                    ELSE c.messages
                    IN  IF business_ends_request(result)
                        THEN [c EXCEPT
                                !.pc = "done",
                                !.business_validation = result,
                                !.messages = extended,
                                !.response = ProcessEdiMessageResponse(
                                    "BUSINESS_RULE_ERROR", req.message_type,
                                    extended)]
                        ELSE [c EXCEPT !.pc = "respond",
                                       !.business_validation = result,
                                       !.messages = extended]
               ELSE [c EXCEPT !.pc = "respond"]
          [] c.pc = "respond" ->
               [c EXCEPT
                  !.pc = "done",
                  !.response =
                      [ProcessEdiMessageResponse("SUCCESS", req.message_type,
                                                 c.messages)
                          EXCEPT !.data = c.parse_result.data,
                                 !.parsed_segments =
                                     IF req.options.include_raw_segments
                                     THEN c.parse_result.segments ELSE <<>>]]

\* the call run from start to end with no other call in the pool
RECURSIVE RunAlone(_)
RunAlone(c) == IF c.pc = "done" THEN c ELSE RunAlone(HandlerStep(c))

PoolOptions ==
    { o \in TwiceOptions : o.validate_format = o.validate_business_rules }

PoolRequests ==
    { [op |-> "process", edi_message |-> doc, message_type |-> "850",
       options |-> options] : doc \in TwiceDocs, options \in PoolOptions }
    \cup
    { [op |-> "validate", edi_message |-> doc, message_type |-> "850",
       options |-> NoOptions] : doc \in TwiceDocs }

PoolInit ==
    /\ raw = <<>>
    /\ fn_pc = "off"
    /\ fn_out = [op |-> "none"]
    /\ pc = "idle"
    /\ request = NoRequest
    /\ messages = <<>>
    /\ validation_result = NoResult
    /\ parse_result = NoParse
    /\ business_validation = NoResult
    /\ response = NoResponse
    /\ ran = {}
    /\ calls = [w \in Workers |-> IdleCall]
    /\ history = <<>>

\* a worker thread takes a call
PoolReceive(w) ==
    /\ calls[w].pc = "idle"
    /\ \E req \in PoolRequests : calls' = [calls EXCEPT ![w] = NewCall(req)]
    /\ UNCHANGED <<fn_vars, svc_vars, history>>

\* a handler whose list `messages` is an attribute of the shared servicer:
\* what one call appends, every running call sees
PoolStep_shared_messages(w) ==
    /\ calls[w].pc \notin {"idle", "done"}
    /\ LET stepped == HandlerStep(calls[w])
       IN  calls' = [v \in Workers |->
                        IF v = w THEN stepped
                        ELSE IF calls[v].pc \in {"idle", "done"} THEN calls[v]
                        ELSE [calls[v] EXCEPT !.messages = stepped.messages]]
    /\ UNCHANGED <<fn_vars, svc_vars, history>>

\* the thread of worker w runs its handler one step further, on its locals
PoolStep(w) ==
    /\ calls[w].pc \notin {"idle", "done"}
    /\ calls' = [calls EXCEPT ![w] = HandlerStep(calls[w])]
    /\ UNCHANGED <<fn_vars, svc_vars, history>>

\* the response goes back to the caller, the thread is free again
PoolReturn(w) ==
    /\ calls[w].pc = "done"
    /\ calls' = [calls EXCEPT ![w] = IdleCall]
    /\ UNCHANGED <<fn_vars, svc_vars, history>>

PoolNext ==
    \E w \in Workers : PoolReceive(w) \/ PoolStep(w) \/ PoolReturn(w)

SpecPool == PoolInit /\ [][PoolNext]_vars

\* C22: under every interleaving of the calls of the pool, a call that has
\* ended holds the response it gets when it runs alone.
C22_CallsDoNotInterfere ==
    \A w \in Workers :
        calls[w].pc = "done" =>
            calls[w].response = RunAlone(NewCall(calls[w].request)).response

\* two calls on different documents have both ended, one in
\* BUSINESS_RULE_ERROR and one in SUCCESS
C22_Witness ==
    /\ calls[1].pc = "done" /\ calls[2].pc = "done"
    /\ calls[1].request.op = "process" /\ calls[2].request.op = "process"
    /\ calls[1].response.status = "BUSINESS_RULE_ERROR"
    /\ calls[2].response.status = "SUCCESS"

----------------------------------------------------------------------------
(* Specification SpecDirect: parse_message and validate_format called      *)
(* directly, with any code, on short runs of line-item, acknowledgment,    *)
(* party and other segments                                                *)

MaxDirectLines == 3

DirectLines ==
    { Line(<<Word.PO1, <<"1">>, <<"5">> >>),
      Line(<<Word.PO1, <<"2">>, <<"0">>, <<"E">> >>),
      Line(<<Word.PO1, <<"1">>, <<"X">> >>),
      Line(<<Word.PO1, <<"3">>, <<"n", "a", "n">> >>),
      Line(<<Word.IT1, <<"1">>, <<"2">> >>),
      Line(<<Word.IT1, <<"2">> >>),
      Line(<<Word.AK2, <<"8", "5", "0">>, <<"1">> >>),
      Line(<<Word.AK2, <<"8", "1", "0">> >>),
      Line(<<Word.N1, <<"Z", "Z">>, <<"A">> >>),
      Line(<<Word.N1, Word["BY"], <<"A">> >>),
      Line(<<Word.REF, <<"X">> >>),
      Line(<<Word.BEG, <<"0">>, <<"P">> >>) }

DirectTexts ==
    { join(NL, lines) : lines \in SeqsUpTo(DirectLines, MaxDirectLines) }

DirectInit ==
    /\ raw \in DirectTexts
    /\ fn_pc = "input"
    /\ fn_out = [op |-> "none"]
    /\ SvcIdle

\* EdiParser.parse_message called as the tests call it
DirectParse ==
    /\ fn_pc = "input"
    /\ \E message_type \in Codes :
           fn_out' = [op |-> "parse_message",
                      message_type |-> message_type,
                      parse_result |-> parse_message(raw, message_type)]
    /\ fn_pc' = "done"
    /\ UNCHANGED <<raw, svc_vars, pool_vars>>

\* EdiValidator.validate_format called as the tests call it
DirectFormat ==
    /\ fn_pc = "input"
    /\ \E message_type \in Codes :
           fn_out' = [op |-> "validate_format",
                      message_type |-> message_type,
                      validation_result |-> validate_format(raw, message_type)]
    /\ fn_pc' = "done"
    /\ UNCHANGED <<raw, svc_vars, pool_vars>>

DirectNext == DirectParse \/ DirectFormat

SpecDirect == DirectInit /\ [][DirectNext]_vars

\* parse_message has returned a record extracted from raw
DirectExtracted ==
    /\ fn_pc = "done" /\ fn_out.op = "parse_message"
    /\ fn_out.parse_result.success

\* the segments of the text with the given id, in document order
SegmentsWithId(text, id) ==
    LET HasId(seg) == seg.segment_id = id
    IN  SelectSeq(parser_split_into_segments(text), HasId)

\* C24: the line items of an extracted purchase order (invoice) are, in
\* order, the items built from the PO1 (IT1) segments of the document: as
\* many items as segments, the k-th item from the k-th segment; likewise
\* the transaction_set_acks of a 997 record and the AK2 segments.
C24_GroupsInEncounterOrder ==
    DirectExtracted =>
        LET data == fn_out.parse_result.data.value
            po1 == SegmentsWithId(raw, Word.PO1)
            it1 == SegmentsWithId(raw, Word.IT1)
            ak2 == SegmentsWithId(raw, Word.AK2)
        IN  /\ fn_out.message_type = "850" =>
                data.line_items =
                    [k \in 1..Len(po1) |->
                        LineItem(po1[k].elements, "quantity_ordered").item]
            /\ fn_out.message_type = "810" =>
                data.line_items =
                    [k \in 1..Len(it1) |->
                        LineItem(it1[k].elements, "quantity_invoiced").item]
            /\ fn_out.message_type = "997" =>
                data.transaction_set_acks =
                    [k \in 1..Len(ak2) |->
                        [transaction_set_id |-> ElementOr(ak2[k].elements, 0),
                         control_number |-> ElementOr(ak2[k].elements, 1),
                         acknowledgment_code |->
                             ElementOr(ak2[k].elements, 2)]]

\* an invoice extracted from a document with two different IT1 segments and
\* a segment between them
C24_Witness ==
    /\ DirectExtracted /\ fn_out.message_type = "810"
    /\ Len(parser_split_into_segments(raw)) = 3
    /\ parser_split_into_segments(raw)[2].segment_id # Word.IT1
    /\ Len(fn_out.parse_result.data.value.line_items) = 2
    /\ fn_out.parse_result.data.value.line_items[1].line_number = <<"2">>
    /\ fn_out.parse_result.data.value.line_items[2].line_number = <<"1">>

\* the segment ids an extraction routine has a branch for
RecognizedIds(message_type) ==
    CASE message_type = "850" -> {Word.BEG, Word.PO1, Word.N1}
      [] message_type = "810" -> {Word.BIG, Word.IT1, Word.N1}
      [] message_type = "856" -> {Word.BSN, Word.HL, Word.N1}
      [] message_type = "997" -> {Word.AK1, Word.AK2, Word.AK5}

\* a segment the extraction of the kind does not recognize: another id, or
\* a party segment whose role code the kind has no slot for
Unrecognized(seg, message_type) ==
    \/ seg.segment_id \notin RecognizedIds(message_type)
    \/ /\ seg.segment_id = Word.N1
       /\ Len(seg.elements) >= 2
       /\ \A role \in RecognizedRoles(message_type) :
              seg.elements[1] # Word[role]

\* the lines of a text without line i
WithoutLine(text, i) ==
    LET lines == split(text, NL)
    IN  join(NL, Keep(lines, (1..Len(lines)) \ {i}, 1))

\* C26: for every segment of the document that the extraction of the kind
\* does not recognize (another id, or an N1 with an unrecognized role code),
\* parse_message on the document without that segment succeeds exactly when
\* it succeeds on the document, with the same typed record; and a document
\* made of unrecognized segments only never fails to parse.
C26_UnrecognizedSegmentsIgnored ==
    (fn_pc = "done" /\ fn_out.op = "parse_message"
        /\ fn_out.message_type \in SupportedCodes) =>
        LET message_type == fn_out.message_type
            segs == parser_split_into_segments(raw)
        IN  /\ \A i \in 1..Len(segs) :
                   Unrecognized(segs[i], message_type) =>
                       LET without ==
                               parse_message(WithoutLine(raw, i), message_type)
                       IN  /\ without.success = fn_out.parse_result.success
                           /\ without.data = fn_out.parse_result.data
            /\ (\A i \in 1..Len(segs) : Unrecognized(segs[i], message_type))
                   => fn_out.parse_result.success

\* a purchase order extracted from a document holding a line item, a party
\* segment with an unrecognized role and a segment of another id
C26_Witness ==
    /\ DirectExtracted /\ fn_out.message_type = "850"
    /\ Len(parser_split_into_segments(raw)) = 3
    /\ \E i, j \in 1..3 :
           /\ parser_split_into_segments(raw)[i].segment_id = Word.N1
           /\ Unrecognized(parser_split_into_segments(raw)[i], "850")
           /\ parser_split_into_segments(raw)[j].segment_id = Word.REF
    /\ Len(fn_out.parse_result.data.value.line_items) = 1

\* the codes of the entries of a table
TableCodes(table) == {table[k].code : k \in 1..Len(table)}

\* C28: a code passes the service's gate exactly when the validator has a
\* descriptor for it and the parser a routine, namely for 850, 810, 856 and
\* 997, and the three tables hold the same required and optional ids for
\* them; validate_format reports UNSUPPORTED_MESSAGE_TYPE exactly for a
\* code the gate refuses, and parse_message fails with 'Unsupported message
\* type' exactly for such a code, as a returned failure result with an
\* error message and no record.
C28_TypeTablesAgree ==
    /\ \A code \in Codes :
           /\ is_message_type_supported(code)
                  <=> code \in DOMAIN validator_segment_patterns
           /\ is_message_type_supported(code)
                  <=> code \in DOMAIN parser_segment_patterns
           /\ is_message_type_supported(code) <=> code \in SupportedCodes
           /\ is_message_type_supported(code)
                  <=> code \in TableCodes(initialize_supported_types)
    /\ \A k \in 1..Len(initialize_supported_types) :
           LET entry == initialize_supported_types[k]
           IN  /\ validator_segment_patterns[entry.code].required
                      = entry.required_segments
               /\ validator_segment_patterns[entry.code].optional
                      = entry.optional_segments
               /\ parser_segment_patterns[entry.code].required
                      = entry.required_segments
               /\ parser_segment_patterns[entry.code].optional
                      = entry.optional_segments
    /\ (fn_pc = "done" /\ fn_out.op = "validate_format") =>
           (HasCode(fn_out.validation_result.messages,
                    "UNSUPPORTED_MESSAGE_TYPE")
                <=> ~is_message_type_supported(fn_out.message_type))
    /\ (fn_pc = "done" /\ fn_out.op = "parse_message") =>
           /\ fn_out.parse_result.error_message = "Unsupported message type"
                  <=> ~is_message_type_supported(fn_out.message_type)
           /\ ~is_message_type_supported(fn_out.message_type) =>
                  /\ ~fn_out.parse_result.success
                  /\ fn_out.parse_result.data = NoData
                  /\ fn_out.parse_result.error_message # ""

\* parse_message has been called with code 999 on a document with segments
C28_Witness ==
    /\ fn_pc = "done" /\ fn_out.op = "parse_message"
    /\ fn_out.message_type = "999"
    /\ Len(parser_split_into_segments(raw)) = 3
    /\ ~fn_out.parse_result.success
    /\ fn_out.parse_result.error_message = "Unsupported message type"

----------------------------------------------------------------------------
(* Specification SpecRules: validate_business_rules on typed records       *)

MaxItems == 2

\* the quantities of a line item: negative, zero, positive, not-a-number
RuleQuantities == {0 - 1, 0, 5, NaN}

RuleItems ==
    { [line_number |-> line_number,
       quantity |-> [field |-> "quantity_ordered", value |-> value,
                     unit_of_measure |-> <<>>],
       unit_price |-> [value |-> 0],
       product |-> [description |-> <<>>, product_id |-> <<>>]] :
          line_number \in {<<>>, <<"1">>}, value \in RuleQuantities }

InvoiceItem ==
    [line_number |-> <<"1">>,
     quantity |-> [field |-> "quantity_invoiced", value |-> 0,
                   unit_of_measure |-> <<>>],
     unit_price |-> [value |-> 0],
     product |-> [description |-> <<>>, product_id |-> <<>>]]

RuleTexts == {<<>>, <<"P">>}

\* the typed records handed to validate_business_rules, with their code
RuleRecords ==
    { [message_type |-> "850",
       data |-> [PurchaseOrderData EXCEPT !.po_number = number,
                                          !.line_items = items]] :
          number \in RuleTexts, items \in SeqsUpTo(RuleItems, MaxItems) }
    \cup
    { [message_type |-> "810",
       data |-> [InvoiceData EXCEPT !.invoice_number = number,
                                    !.line_items = items]] :
          number \in RuleTexts, items \in SeqsUpTo({InvoiceItem}, MaxItems) }
    \cup
    { [message_type |-> "856",
       data |-> [AdvanceShipNoticeData EXCEPT !.shipment_id = id]] :
          id \in RuleTexts }
    \cup
    { [message_type |-> "997",
       data |-> [FunctionalAcknowledgmentData
                     EXCEPT !.original_transaction_set_id = id]] :
          id \in RuleTexts }

RulesInit ==
    /\ raw = <<>>
    /\ fn_pc = "input"
    /\ \E record \in RuleRecords :
           fn_out = [op |-> "record", message_type |-> record.message_type,
                     data |-> record.data]
    /\ SvcIdle

\* EdiValidator.validate_business_rules on the record
ApplyRules ==
    /\ fn_pc = "input"
    /\ fn_out' = [op |-> "validate_business_rules",
                  message_type |-> fn_out.message_type,
                  data |-> fn_out.data,
                  business_validation |->
                      validate_business_rules(fn_out.data,
                                              fn_out.message_type)]
    /\ fn_pc' = "done"
    /\ UNCHANGED <<raw, svc_vars, pool_vars>>

RulesNext == ApplyRules

SpecRules == RulesInit /\ [][RulesNext]_vars

\* the codes of the rules of a record kind
RuleCodes(message_type) ==
    CASE message_type = "850" -> {"MISSING_PO_NUMBER", "NO_LINE_ITEMS",
                                  "MISSING_LINE_NUMBER", "INVALID_QUANTITY"}
      [] message_type = "810" -> {"MISSING_INVOICE_NUMBER", "NO_LINE_ITEMS"}
      [] message_type = "856" -> {"MISSING_SHIPMENT_ID"}
      [] message_type = "997" -> {"MISSING_ORIGINAL_TRANSACTION_SET_ID"}

\* the rule of a line item's quantity: greater than 0
QuantityIsPositive(value) == value # NaN /\ value > 0

\* C27: validate_business_rules reports exactly the violated rules of the
\* record's kind, each as an Error: MISSING_INVOICE_NUMBER iff the invoice
\* number is empty and NO_LINE_ITEMS iff there is no line item;
\* MISSING_SHIPMENT_ID iff the shipment id is empty;
\* MISSING_ORIGINAL_TRANSACTION_SET_ID iff that id is empty; for a purchase
\* order MISSING_PO_NUMBER, NO_LINE_ITEMS and, for each line item,
\* MISSING_LINE_NUMBER iff its line number is empty and INVALID_QUANTITY iff
\* its quantity is not greater than 0; has_errors iff there is a message.
C27_ExactlyViolatedRules ==
    (fn_pc = "done" /\ fn_out.op = "validate_business_rules") =>
        LET data == fn_out.data
            message_type == fn_out.message_type
            msgs == fn_out.business_validation.messages
            Reported(code) == HasCode(msgs, code)
            ReportedAt(code, i) ==
                Cardinality({ k \in 1..Len(msgs) :
                    msgs[k].code = code /\ msgs[k].index = i }) = 1
        IN  /\ \A k \in 1..Len(msgs) :
                   /\ msgs[k].level = "ERROR"
                   /\ msgs[k].code \in RuleCodes(message_type)
            /\ fn_out.business_validation.has_errors <=> msgs # <<>>
            /\ fn_out.business_validation.is_valid <=> msgs = <<>>
            /\ message_type = "810" =>
                   /\ Reported("MISSING_INVOICE_NUMBER")
                          <=> data.invoice_number = <<>>
                   /\ Reported("NO_LINE_ITEMS") <=> data.line_items = <<>>
            /\ message_type = "856" =>
                   (Reported("MISSING_SHIPMENT_ID") <=> data.shipment_id = <<>>)
            /\ message_type = "997" =>
                   (Reported("MISSING_ORIGINAL_TRANSACTION_SET_ID")
                        <=> data.original_transaction_set_id = <<>>)
            /\ message_type = "850" =>
                   /\ Reported("MISSING_PO_NUMBER") <=> data.po_number = <<>>
                   /\ Reported("NO_LINE_ITEMS") <=> data.line_items = <<>>
                   /\ \A k \in 1..Len(data.line_items) :
                          /\ ReportedAt("MISSING_LINE_NUMBER", k - 1)
                                 <=> data.line_items[k].line_number = <<>>
                          /\ ReportedAt("INVALID_QUANTITY", k - 1)
                                 <=> ~QuantityIsPositive(
                                         data.line_items[k].quantity.value)

====
